---- MODULE Spec2Model ----
(***************************************************************************)
(* Chicago legislation platform (mgebeyehu/Black-CS-Summit).               *)
(*                                                                         *)
(* ChicagoLegislationService (app/services/chicago_legislation_service.py) *)
(* and the request handlers of chicago_legislation_server.py, as a state   *)
(* machine: the corpus `documents`, the `chat_history`, and the response   *)
(* of the last request.                                                    *)
(*                                                                         *)
(* A Python str is a sequence of one-character strings, so that lower(),   *)
(* split(), strip(), slicing and the `in` substring test are computed      *)
(* character by character.  Floats are exact rationals in lowest terms     *)
(* (see Rat).  Timestamps are left out of the chat turns and responses.    *)
(***************************************************************************)
EXTENDS Integers, Sequences, FiniteSets, TLC

(***************************************************************************)
(* Python values                                                           *)
(***************************************************************************)
\* Python's None (a JSON null); told apart from every str by its one
\* multi-character element.
None == <<"<None>">>

\* str.lower() on the ASCII letters.
ToLower == "A" :> "a" @@ "B" :> "b" @@ "C" :> "c" @@ "D" :> "d" @@ "E" :> "e" @@ "F" :> "f" @@ "G" :> "g" @@ "H" :> "h" @@ "I" :> "i" @@ "J" :> "j" @@ "K" :> "k" @@ "L" :> "l" @@ "M" :> "m" @@ "N" :> "n" @@ "O" :> "o" @@ "P" :> "p" @@ "Q" :> "q" @@ "R" :> "r" @@ "S" :> "s" @@ "T" :> "t" @@ "U" :> "u" @@ "V" :> "v" @@ "W" :> "w" @@ "X" :> "x" @@ "Y" :> "y" @@ "Z" :> "z"

lower(s) == [i \in 1..Len(s) |-> IF s[i] \in DOMAIN ToLower THEN ToLower[s[i]] ELSE s[i]]

\* The characters str.split() and str.strip() treat as white space.
Whitespace == {" ", "\n", "\t", "\r"}

\* str.strip()
strip(s) ==
    LET keep == {i \in 1..Len(s) : s[i] \notin Whitespace}
    IN  IF keep = {} THEN <<>>
        ELSE SubSeq(s, CHOOSE i \in keep : \A j \in keep : i <= j,
                       CHOOSE i \in keep : \A j \in keep : j <= i)

\* The index of the last character of the white-space-free run starting at i.
RunEnd(s, i) ==
    CHOOSE j \in i..Len(s) :
        /\ \A k \in i..j : s[k] \notin Whitespace
        /\ j = Len(s) \/ s[j + 1] \in Whitespace

\* set(s.split()): the set of the maximal white-space-free runs of s.
split_set(s) ==
    {SubSeq(s, i, RunEnd(s, i)) :
        i \in {k \in 1..Len(s) : s[k] \notin Whitespace
                                 /\ (k = 1 \/ s[k - 1] \in Whitespace)}}

\* Python's `w in s` for two str: w occurs in s as a contiguous substring.
contains(w, s) ==
    \E i \in 1..(Len(s) - Len(w) + 1) : \A j \in 1..Len(w) : s[i + j - 1] = w[j]

\* s[:n] for n >= 0
prefix(s, n) == SubSeq(s, 1, IF n < Len(s) THEN n ELSE Len(s))

\* str(v), and the formatting of v inside an f-string: None prints "None".
str(v) == IF v = None THEN <<"N","o","n","e">> ELSE v

\* dict.get(key, default): a dict is a record holding the keys it has.  The
\* default is used only when the key is missing; a key that is present with
\* a null value yields None.
get(d, key, default) == IF key \in DOMAIN d THEN d[key] ELSE default

\* v.lower() raises AttributeError when v is None.
lower_raises(v) == v = None

(***************************************************************************)
(* String literals of the service                                          *)
(***************************************************************************)
LIT_UntitledLegislation == <<"U","n","t","i","t","l","e","d"," ","L","e","g","i","s","l","a","t","i","o","n">>

LIT_Unknown == <<"U","n","k","n","o","w","n">>

LIT_General == <<"G","e","n","e","r","a","l">>

LIT_NO == <<"N","O">>

LIT_YES == <<"Y","E","S">>

LIT_Yes == <<"Y","e","s">>

LIT_No == <<"N","o">>

LIT_NoDescription == <<"N","o"," ","a","d","d","i","t","i","o","n","a","l"," ","d","e","s","c","r","i","p","t","i","o","n"," ","a","v","a","i","l","a","b","l","e">>

LIT_DocIdPrefix == <<"c","h","i","c","a","g","o","_","l","e","g","_">>

LIT_UrlPrefix == <<"h","t","t","p","s",":","/","/","c","h","i","c","a","g","o",".","l","e","g","i","s","t","a","r",".","c","o","m","/","L","e","g","i","s","l","a","t","i","o","n","D","e","t","a","i","l",".","a","s","p","x","?","I","D","=">>

LIT_Source == <<"c","h","i","c","a","g","o","_","c","i","t","y","_","c","l","e","r","k","_","a","p","i">>

LIT_chicago == <<"c","h","i","c","a","g","o">>

LIT_Authority == <<"C","h","i","c","a","g","o"," ","C","i","t","y"," ","C","o","u","n","c","i","l">>

LIT_Ellipsis == <<".",".",".">>

FMT_Open == <<"\n"," "," "," "," "," "," "," "," "," "," "," "," ">>

FMT_RecordNumber == <<"\n"," "," "," "," "," "," "," "," "," "," "," "," ","\n"," "," "," "," "," "," "," "," "," "," "," "," ","R","e","c","o","r","d"," ","N","u","m","b","e","r",":"," ">>

FMT_Type == <<"\n"," "," "," "," "," "," "," "," "," "," "," "," ","T","y","p","e",":"," ">>

FMT_Category == <<"\n"," "," "," "," "," "," "," "," "," "," "," "," ","C","a","t","e","g","o","r","y",":"," ">>

FMT_Status == <<"\n"," "," "," "," "," "," "," "," "," "," "," "," ","S","t","a","t","u","s",":"," ">>

FMT_Sponsor == <<"\n"," "," "," "," "," "," "," "," "," "," "," "," ","S","p","o","n","s","o","r",":"," ">>

FMT_IntroductionDate == <<"\n"," "," "," "," "," "," "," "," "," "," "," "," ","I","n","t","r","o","d","u","c","t","i","o","n"," ","D","a","t","e",":"," ">>

FMT_CommitteeReferral == <<"\n"," "," "," "," "," "," "," "," "," "," "," "," ","C","o","m","m","i","t","t","e","e"," ","R","e","f","e","r","r","a","l",":"," ">>

FMT_KeyLegislation == <<"\n"," "," "," "," "," "," "," "," "," "," "," "," ","K","e","y"," ","L","e","g","i","s","l","a","t","i","o","n",":"," ">>

FMT_EconomicDisclosure == <<"\n"," "," "," "," "," "," "," "," "," "," "," "," ","E","c","o","n","o","m","i","c"," ","D","i","s","c","l","o","s","u","r","e"," ","R","e","q","u","i","r","e","d",":"," ">>

FMT_Routine == <<"\n"," "," "," "," "," "," "," "," "," "," "," "," ","R","o","u","t","i","n","e",":"," ">>

FMT_AgreedCalendar == <<"\n"," "," "," "," "," "," "," "," "," "," "," "," ","A","g","r","e","e","d"," ","C","a","l","e","n","d","a","r",":"," ">>

FMT_Description == <<"\n"," "," "," "," "," "," "," "," "," "," "," "," ","\n"," "," "," "," "," "," "," "," "," "," "," "," ","D","e","s","c","r","i","p","t","i","o","n",":"," ">>

FMT_Close == <<"\n"," "," "," "," "," "," "," "," "," "," "," "," ">>

V_1 == <<"1">>

V_2 == <<"2">>

V_3 == <<"3">>

V_ZoningMap == <<"Z","o","n","i","n","g"," ","M","a","p">>

V_ZoningFee == <<"Z","o","n","i","n","g"," ","F","e","e">>

V_ParkingFee == <<"P","a","r","k","i","n","g"," ","f","e","e">>

V_O1 == <<"O","1">>

V_R2 == <<"R","2">>

V_Ordinance == <<"O","r","d","i","n","a","n","c","e">>

V_Resolution == <<"R","e","s","o","l","u","t","i","o","n">>

V_Order == <<"O","r","d","e","r">>

V_ZONING == <<"Z","O","N","I","N","G">>

V_Parking == <<"P","a","r","k","i","n","g">>

V_Traffic == <<"T","r","a","f","f","i","c">>

V_Passed == <<"P","a","s","s","e","d">>

V_Failed == <<"F","a","i","l","e","d">>

V_Lee == <<"L","e","e">>

V_Date1 == <<"2","0","2","4","-","0","1","-","0","5">>

V_Date2 == <<"2","0","2","3","-","1","1","-","3","0">>

V_Empty == <<>>

\* The substrings the classifier and the response templates look for.
KW_zoning == <<"z","o","n","i","n","g">>

KW_building == <<"b","u","i","l","d","i","n","g">>

KW_business == <<"b","u","s","i","n","e","s","s">>

KW_license == <<"l","i","c","e","n","s","e">>

KW_health == <<"h","e","a","l","t","h">>

KW_food == <<"f","o","o","d">>

KW_parking == <<"p","a","r","k","i","n","g">>

KW_traffic == <<"t","r","a","f","f","i","c">>

KW_transportation == <<"t","r","a","n","s","p","o","r","t","a","t","i","o","n">>

KW_finance == <<"f","i","n","a","n","c","e">>

KW_budget == <<"b","u","d","g","e","t">>

KW_public_safety == <<"p","u","b","l","i","c"," ","s","a","f","e","t","y">>

KW_police == <<"p","o","l","i","c","e">>

KW_fire == <<"f","i","r","e">>

KW_education == <<"e","d","u","c","a","t","i","o","n">>

KW_school == <<"s","c","h","o","o","l">>

KW_environment == <<"e","n","v","i","r","o","n","m","e","n","t">>

KW_sustainability == <<"s","u","s","t","a","i","n","a","b","i","l","i","t","y">>

KW_housing == <<"h","o","u","s","i","n","g">>

KW_residential == <<"r","e","s","i","d","e","n","t","i","a","l">>

KW_executive_order == <<"e","x","e","c","u","t","i","v","e"," ","o","r","d","e","r">>

KW_proclamation == <<"p","r","o","c","l","a","m","a","t","i","o","n">>

KW_resolution == <<"r","e","s","o","l","u","t","i","o","n">>

KW_ordinance == <<"o","r","d","i","n","a","n","c","e">>

\* The category names the classifier returns.
CAT_construction == <<"c","o","n","s","t","r","u","c","t","i","o","n">>

CAT_business == <<"b","u","s","i","n","e","s","s">>

CAT_healthcare == <<"h","e","a","l","t","h","c","a","r","e">>

CAT_transportation == <<"t","r","a","n","s","p","o","r","t","a","t","i","o","n">>

CAT_finance == <<"f","i","n","a","n","c","e">>

CAT_public_safety == <<"p","u","b","l","i","c","_","s","a","f","e","t","y">>

CAT_education == <<"e","d","u","c","a","t","i","o","n">>

CAT_environment == <<"e","n","v","i","r","o","n","m","e","n","t">>

CAT_housing == <<"h","o","u","s","i","n","g">>

CAT_governance == <<"g","o","v","e","r","n","a","n","c","e">>

CAT_general == <<"g","e","n","e","r","a","l">>

(***************************************************************************)
(* Record normalizer                                                       *)
(***************************************************************************)
\* A variant of the classifier that tries the type-text rules first.
map_category_to_system_type_first(category, matter_type) ==
    IF \/ contains(KW_executive_order, lower(matter_type))
       \/ contains(KW_proclamation, lower(matter_type))
       \/ contains(KW_resolution, lower(matter_type))
       \/ contains(KW_ordinance, lower(matter_type))
    THEN CAT_governance
    ELSE IF contains(KW_zoning, lower(category)) \/ contains(KW_building, lower(category))
    THEN CAT_construction
    ELSE CAT_general

\* A variant of the classifier that passes the category text through.
map_category_to_system_passthrough(category, matter_type) == lower(category)

\* The first-match-wins substring chain over the lower-cased category text
\* and type text.
map_category_to_system(category, matter_type) ==
    LET category_lower == lower(category)
        type_lower == lower(matter_type)
    IN  IF contains(KW_zoning, category_lower) \/ contains(KW_building, category_lower)
            THEN CAT_construction
        ELSE IF contains(KW_business, category_lower) \/ contains(KW_license, category_lower)
            THEN CAT_business
        ELSE IF contains(KW_health, category_lower) \/ contains(KW_food, category_lower)
            THEN CAT_healthcare
        ELSE IF \/ contains(KW_parking, category_lower)
                \/ contains(KW_traffic, category_lower)
                \/ contains(KW_transportation, category_lower)
            THEN CAT_transportation
        ELSE IF contains(KW_finance, category_lower) \/ contains(KW_budget, category_lower)
            THEN CAT_finance
        ELSE IF \/ contains(KW_public_safety, category_lower)
                \/ contains(KW_police, category_lower)
                \/ contains(KW_fire, category_lower)
            THEN CAT_public_safety
        ELSE IF contains(KW_education, category_lower) \/ contains(KW_school, category_lower)
            THEN CAT_education
        ELSE IF \/ contains(KW_environment, category_lower)
                \/ contains(KW_sustainability, category_lower)
            THEN CAT_environment
        ELSE IF contains(KW_housing, category_lower) \/ contains(KW_residential, category_lower)
            THEN CAT_housing
        ELSE IF contains(KW_executive_order, type_lower) \/ contains(KW_proclamation, type_lower)
            THEN CAT_governance
        ELSE IF contains(KW_resolution, type_lower)
            THEN CAT_governance
        ELSE IF contains(KW_ordinance, type_lower)
            THEN CAT_governance
        ELSE CAT_general

\* 'Yes' if flag else 'No'
yes_no(flag) == IF flag THEN LIT_Yes ELSE LIT_No

\* The f-string that composes the content block, before strip().
content_block(matter) ==
    LET key_legislation == get(matter, "keyLegislation", LIT_NO) = LIT_YES
    IN  FMT_Open \o str(get(matter, "title", LIT_UntitledLegislation))
        \o FMT_RecordNumber \o str(get(matter, "recordNumber", <<>>))
        \o FMT_Type \o str(get(matter, "type", LIT_Unknown))
        \o FMT_Category \o str(get(matter, "matterCategory", LIT_General))
        \o FMT_Status \o str(get(matter, "statusDescription", LIT_Unknown))
        \o FMT_Sponsor \o str(get(matter, "filingSponsor", LIT_Unknown))
        \o FMT_IntroductionDate \o str(get(matter, "introductionDate", <<>>))
        \o FMT_CommitteeReferral \o str(get(matter, "committeReferral", <<>>))
        \o FMT_KeyLegislation \o yes_no(key_legislation)
        \o FMT_EconomicDisclosure \o yes_no(get(matter, "economicDisclosure", None) = LIT_YES)
        \o FMT_Routine \o yes_no(get(matter, "routine", None) = LIT_YES)
        \o FMT_AgreedCalendar \o yes_no(get(matter, "agreedCalendar", None) = LIT_YES)
        \o FMT_Description \o str(get(matter, "nicknameAlias", LIT_NoDescription))
        \o FMT_Close

\* The exceptions the try block of _process_legislation_item catches: the
\* two .lower() calls of the classifier (and matter_type.lower() of
\* document_type) on a None.
process_raises(matter) ==
    \/ lower_raises(get(matter, "matterCategory", LIT_General))
    \/ lower_raises(get(matter, "type", LIT_Unknown))

\* One source record -> one document, or None when the try block caught.
process_legislation_item(matter) ==
    LET matter_id == get(matter, "matterId", <<>>)
        title == get(matter, "title", LIT_UntitledLegislation)
        record_number == get(matter, "recordNumber", <<>>)
        matter_type == get(matter, "type", LIT_Unknown)
        category == get(matter, "matterCategory", LIT_General)
        status == get(matter, "statusDescription", LIT_Unknown)
        sponsor == get(matter, "filingSponsor", LIT_Unknown)
        introduction_date == get(matter, "introductionDate", <<>>)
        committee == get(matter, "committeReferral", <<>>)
        key_legislation == get(matter, "keyLegislation", LIT_NO) = LIT_YES
    IN  IF process_raises(matter) THEN None
        ELSE [source |-> LIT_Source,
              document_id |-> LIT_DocIdPrefix \o str(matter_id),
              title |-> title,
              content |-> strip(content_block(matter)),
              document_type |-> lower(matter_type),
              category |-> map_category_to_system(category, matter_type),
              jurisdiction |-> LIT_chicago,
              authority |-> LIT_Authority,
              url |-> LIT_UrlPrefix \o str(matter_id),
              effective_date |-> introduction_date,
              metadata |->
                [matter_id |-> matter_id,
                 record_number |-> record_number,
                 matter_type |-> matter_type,
                 matter_category |-> category,
                 status |-> status,
                 sponsor |-> sponsor,
                 committee_referral |-> committee,
                 key_legislation |-> key_legislation,
                 economic_disclosure |-> get(matter, "economicDisclosure", None),
                 routine |-> get(matter, "routine", None),
                 agreed_calendar |-> get(matter, "agreedCalendar", None),
                 introduction_type |-> get(matter, "introductionType", None),
                 controlling_body |-> get(matter, "controllingBody", None),
                 file_year |-> get(matter, "fileYear", None),
                 last_publication_date |-> get(matter, "lastPublicationDate", None)]]

(***************************************************************************)
(* Keyword extractor and hasher                                            *)
(***************************************************************************)
Letters == {"a","b","c","d","e","f","g","h","i","j","k","l","m","n","o","p","q","r","s","t","u","v","w","x","y","z","A","B","C","D","E","F","G","H","I","J","K","L","M","N","O","P","Q","R","S","T","U","V","W","X","Y","Z"}

\* \w of the regular expression: what \b does not separate from a letter.
WordChars == Letters \cup {"0","1","2","3","4","5","6","7","8","9", "_"}

\* The number of pairs _extract_keywords keeps.
TopKeywords == 10

\* The shortest run of letters the pattern [a-zA-Z]{3,} matches.
MinKeywordLen == 3

\* The index of the last letter of the run of letters starting at i.
LetterRunEnd(s, i) ==
    CHOOSE j \in i..Len(s) :
        /\ \A k \in i..j : s[k] \in Letters
        /\ j = Len(s) \/ s[j + 1] \notin Letters

\* re.findall(r'\b[a-zA-Z]{3,}\b', s) from index i on: the runs of at least
\* three letters that no digit or underscore touches, in order.
RECURSIVE findall_words(_, _)
findall_words(s, i) ==
    IF \A k \in i..Len(s) : s[k] \notin Letters THEN <<>>
    ELSE LET b == CHOOSE k \in i..Len(s) :
                    s[k] \in Letters /\ \A h \in i..(k - 1) : s[h] \notin Letters
             e == LetterRunEnd(s, b)
         IN  (IF /\ b = 1 \/ s[b - 1] \notin WordChars
                 /\ e - b + 1 >= MinKeywordLen
                 /\ e = Len(s) \/ s[e + 1] \notin WordChars
              THEN <<SubSeq(s, b, e)>> ELSE <<>>)
             \o findall_words(s, e + 1)

\* word_freq after the counting loop: the (word, count) items of the dict,
\* in the order the words were first seen.
RECURSIVE count_words(_, _)
count_words(words, word_freq) ==
    IF words = <<>> THEN word_freq
    ELSE count_words(Tail(words),
            IF \E i \in 1..Len(word_freq) : word_freq[i][1] = Head(words)
            THEN [i \in 1..Len(word_freq) |->
                    IF word_freq[i][1] = Head(words)
                    THEN <<word_freq[i][1], word_freq[i][2] + 1>> ELSE word_freq[i]]
            ELSE Append(word_freq, <<Head(words), 1>>))

\* The items in the order of the dict, without the sort.
dict_order(items) == items

\* sorted(items, key=lambda x: x[1], reverse=True): stable, so items of equal
\* count keep their order.
sorted_by_count(items) ==
    LET place(i) ==
            1 + Cardinality({j \in 1..Len(items) :
                    \/ items[j][2] > items[i][2]
                    \/ items[j][2] = items[i][2] /\ j < i})
    IN  [k \in 1..Len(items) |-> items[CHOOSE i \in 1..Len(items) : place(i) = k]]

extract_keywords(content) ==
    prefix(sorted_by_count(count_words(findall_words(lower(content), 1), <<>>)), TopKeywords)

\* hashlib.md5(content.encode()).hexdigest(): a value determined by the
\* content alone (the digest itself is not computed).
md5_hexdigest(content) == [md5 |-> content]

\* The length of a summary before the ellipsis.
SummaryLen == 300

\* The three derived fields the store loop adds to a fetched document.
enhance(doc_data) ==
    [source |-> doc_data.source,
     document_id |-> doc_data.document_id,
     title |-> doc_data.title,
     content |-> doc_data.content,
     document_type |-> doc_data.document_type,
     category |-> doc_data.category,
     jurisdiction |-> doc_data.jurisdiction,
     authority |-> doc_data.authority,
     url |-> doc_data.url,
     effective_date |-> doc_data.effective_date,
     metadata |-> doc_data.metadata,
     summary |-> IF Len(doc_data.content) > SummaryLen
                 THEN prefix(doc_data.content, SummaryLen) \o LIT_Ellipsis
                 ELSE doc_data.content,
     keywords |-> extract_keywords(doc_data.content),
     content_hash |-> md5_hexdigest(doc_data.content)]

(***************************************************************************)
(* Scores: Python floats as exact rationals in lowest terms                *)
(***************************************************************************)
RECURSIVE gcd(_, _)
gcd(a, b) == IF b = 0 THEN a ELSE gcd(b, a % b)

\* n/d for n >= 0 and d > 0, in lowest terms.
Rat(n, d) == LET g == gcd(n, d) IN [num |-> n \div g, den |-> d \div g]

rat_add(x, y) == Rat(x.num * y.den + y.num * x.den, x.den * y.den)

rat_mul(x, y) == Rat(x.num * y.num, x.den * y.den)

rat_less(x, y) == x.num * y.den < y.num * x.den

rat_min(x, y) == IF rat_less(y, x) THEN y ELSE x

Zero == Rat(0, 1)

One == Rat(1, 1)

\* The weights of the four signals of the ranker.
TitleWeight == Rat(4, 10)

ContentWeight == Rat(3, 10)

CategoryBonus == Rat(2, 10)

SponsorBonus == Rat(1, 10)

\* The confidence of an answer whose top candidate carries no score.
DefaultConfidence == Rat(5, 10)

(***************************************************************************)
(* Relevance ranker                                                        *)
(***************************************************************************)
\* Python truthiness of an optional str: None and "" are falsy.
truthy(v) == v # None /\ v # <<>>

\* A variant of the filter tests that leaves the category filter out.
passes_filters_jurisdiction_only(doc, jurisdiction, category) ==
    ~(truthy(jurisdiction) /\ doc.jurisdiction # jurisdiction)

\* The two filter tests: a document is skipped when a set filter differs.
passes_filters(doc, jurisdiction, category) ==
    /\ ~(truthy(jurisdiction) /\ doc.jurisdiction # jurisdiction)
    /\ ~(truthy(category) /\ doc.category # category)

\* len(query_words.intersection(title_words))
title_overlap(query_words, doc) ==
    Cardinality(query_words \cap split_set(lower(doc.title)))

\* A variant of the content signal that counts the query words that are
\* words of the content, as the title signal does.
content_matches_tokens(query_words, doc) ==
    Cardinality(query_words \cap split_set(lower(doc.content)))

\* sum(1 for word in query_words if word in content_lower)
content_matches(query_words, doc) ==
    Cardinality({word \in query_words : contains(word, lower(doc.content))})

\* any(word in str(metadata.get(key, "")).lower() for word in query_words)
metadata_match(query_words, doc, key) ==
    \E word \in query_words : contains(word, lower(str(get(doc.metadata, key, <<>>))))

\* The score accumulated for one document, before the clamp.
score_of(query_words, doc) ==
    LET n == Cardinality(query_words)
        t == title_overlap(query_words, doc)
        c == content_matches(query_words, doc)
        s1 == IF t > 0 THEN rat_mul(TitleWeight, Rat(t, n)) ELSE Zero
        s2 == IF c > 0 THEN rat_add(s1, rat_mul(ContentWeight, Rat(c, n))) ELSE s1
        s3 == IF metadata_match(query_words, doc, "matter_category")
              THEN rat_add(s2, CategoryBonus) ELSE s2
    IN  IF metadata_match(query_words, doc, "sponsor")
        THEN rat_add(s3, SponsorBonus) ELSE s3

\* A variant of the reasons that lists the category label ahead of the
\* content label.
get_match_reasons_category_first(query_words, doc) ==
    (IF query_words \cap split_set(lower(doc.title)) # {} THEN <<"Title match">> ELSE <<>>)
    \o (IF metadata_match(query_words, doc, "matter_category")
        THEN <<"Category match">> ELSE <<>>)
    \o (IF \E word \in query_words : contains(word, lower(doc.content))
        THEN <<"Content match">> ELSE <<>>)
    \o (IF metadata_match(query_words, doc, "sponsor")
        THEN <<"Sponsor match">> ELSE <<>>)

\* The labels of the signals that matched, in the order of the four tests.
get_match_reasons(query_words, doc) ==
    (IF query_words \cap split_set(lower(doc.title)) # {} THEN <<"Title match">> ELSE <<>>)
    \o (IF \E word \in query_words : contains(word, lower(doc.content))
        THEN <<"Content match">> ELSE <<>>)
    \o (IF metadata_match(query_words, doc, "matter_category")
        THEN <<"Category match">> ELSE <<>>)
    \o (IF metadata_match(query_words, doc, "sponsor")
        THEN <<"Sponsor match">> ELSE <<>>)

\* A variant of the annotation that reports the score as a percentage.
annotate_percent(doc, score, query_words) ==
    [similarity_score |-> rat_mul(rat_min(score, One), Rat(100, 1)),
     match_reasons |-> get_match_reasons(query_words, doc)] @@ doc

\* doc.copy() with the two annotations of a result.
annotate(doc, score, query_words) ==
    [similarity_score |-> rat_min(score, One),
     match_reasons |-> get_match_reasons(query_words, doc)] @@ doc

\* list.sort(key=similarity_score, reverse=True): stable, so results of
\* equal score keep their order.
sort_by_score(results) ==
    LET place(i) ==
            1 + Cardinality({j \in 1..Len(results) :
                    \/ rat_less(results[i].similarity_score, results[j].similarity_score)
                    \/ /\ results[j].similarity_score = results[i].similarity_score
                       /\ j < i})
    IN  [k \in 1..Len(results) |-> results[CHOOSE i \in 1..Len(results) : place(i) = k]]

\* s[:limit] for an int limit: a negative limit counts from the end.
slice_to(s, limit) ==
    IF limit >= 0 THEN prefix(s, limit)
    ELSE prefix(s, IF Len(s) + limit > 0 THEN Len(s) + limit ELSE 0)

\* The documents the loop scores, in corpus order.
RECURSIVE candidates(_, _, _)
candidates(docs, jurisdiction, category) ==
    IF docs = <<>> THEN <<>>
    ELSE (IF passes_filters(Head(docs), jurisdiction, category) THEN <<Head(docs)>> ELSE <<>>)
         \o candidates(Tail(docs), jurisdiction, category)

\* A variant of the results list that keeps every candidate, whatever its
\* score.
RECURSIVE scored_keep_all(_, _)
scored_keep_all(docs, query_words) ==
    IF docs = <<>> THEN <<>>
    ELSE <<annotate(Head(docs), score_of(query_words, Head(docs)), query_words)>>
         \o scored_keep_all(Tail(docs), query_words)

\* The results list before the sort: the annotated copies of the candidates
\* whose score is positive.
RECURSIVE scored(_, _)
scored(docs, query_words) ==
    IF docs = <<>> THEN <<>>
    ELSE LET score == score_of(query_words, Head(docs))
         IN  (IF rat_less(Zero, score)
              THEN <<annotate(Head(docs), score, query_words)>> ELSE <<>>)
             \o scored(Tail(docs), query_words)

\* doc["title"].lower() raises on a candidate whose title is None.
search_raises(docs, jurisdiction, category) ==
    \E i \in 1..Len(docs) :
        passes_filters(docs[i], jurisdiction, category) /\ lower_raises(docs[i].title)

\* ChicagoLegislationService.advanced_semantic_search, when it does not raise.
advanced_semantic_search(docs, query, jurisdiction, category, limit) ==
    LET query_words == split_set(lower(query))
    IN  slice_to(sort_by_score(scored(candidates(docs, jurisdiction, category), query_words)),
                 limit)

(***************************************************************************)
(* Corpus store                                                            *)
(***************************************************************************)
\* A variant of the store that appends every document, as a list would.
upsert_append(docs, doc) == Append(docs, doc)

\* A variant of the store that keeps the stored document alone.
upsert_fresh(docs, doc) == <<doc>>

\* self.documents[doc["document_id"]] = doc on an insertion-ordered dict,
\* held as the sequence of its values: an id that is present keeps its
\* position and gets the new value, a new id goes to the end.
upsert(docs, doc) ==
    IF \E i \in 1..Len(docs) : docs[i].document_id = doc.document_id
    THEN [i \in 1..Len(docs) |->
            IF docs[i].document_id = doc.document_id THEN doc ELSE docs[i]]
    ELSE Append(docs, doc)

\* A {value: count} breakdown of the corpus by one field.
breakdown(docs, field) ==
    [v \in {docs[i][field] : i \in 1..Len(docs)} |->
        Cardinality({i \in 1..Len(docs) : docs[i][field] = v})]

\* dict.get(document_id): the stored document or None.
lookup(docs, document_id) ==
    IF \E i \in 1..Len(docs) : docs[i].document_id = document_id
    THEN docs[CHOOSE i \in 1..Len(docs) : docs[i].document_id = document_id]
    ELSE None

(***************************************************************************)
(* Response composer                                                       *)
(***************************************************************************)
NotAvailable == <<"N","/","A">>

\* The length of the content excerpt of the general template.
ExcerptLen == 300

\* A variant of the answer that tests the business words before zoning.
generate_legislation_response_business_first(user_message, best_doc) ==
    LET user_message_lower == lower(user_message)
        metadata == best_doc.metadata
        head == <<str(best_doc.title),
                  str(get(metadata, "record_number", NotAvailable)),
                  str(get(metadata, "matter_type", NotAvailable)),
                  str(get(metadata, "status", NotAvailable)),
                  str(get(metadata, "sponsor", NotAvailable))>>
    IN  IF contains(KW_business, user_message_lower)
                \/ contains(KW_license, user_message_lower)
        THEN [template |-> "business",
              values |-> head \o <<str(get(metadata, "matter_category", NotAvailable))>>]
        ELSE IF contains(KW_zoning, user_message_lower)
        THEN [template |-> "zoning",
              values |-> head \o <<str(get(metadata, "committee_referral", NotAvailable))>>]
        ELSE IF contains(KW_parking, user_message_lower)
                \/ contains(KW_traffic, user_message_lower)
        THEN [template |-> "transportation",
              values |-> head \o <<str(get(metadata, "committee_referral", NotAvailable))>>]
        ELSE [template |-> "general",
              values |-> head \o <<str(get(metadata, "committee_referral", NotAvailable)),
                                   str(get(metadata, "introduction_date", NotAvailable)),
                                   prefix(best_doc.content, ExcerptLen),
                                   str(get(best_doc, "authority", NotAvailable)),
                                   str(get(best_doc, "category", <<>>)),
                                   str(get(best_doc, "document_type", <<>>))>>]

\* The answer text, held as the template chosen and the values it
\* interpolates, in the order of the template.
generate_legislation_response(user_message, best_doc) ==
    LET user_message_lower == lower(user_message)
        metadata == best_doc.metadata
        head == <<str(best_doc.title),
                  str(get(metadata, "record_number", NotAvailable)),
                  str(get(metadata, "matter_type", NotAvailable)),
                  str(get(metadata, "status", NotAvailable)),
                  str(get(metadata, "sponsor", NotAvailable))>>
    IN  IF contains(KW_zoning, user_message_lower)
        THEN [template |-> "zoning",
              values |-> head \o <<str(get(metadata, "committee_referral", NotAvailable))>>]
        ELSE IF contains(KW_business, user_message_lower)
                \/ contains(KW_license, user_message_lower)
        THEN [template |-> "business",
              values |-> head \o <<str(get(metadata, "matter_category", NotAvailable))>>]
        ELSE IF contains(KW_parking, user_message_lower)
                \/ contains(KW_traffic, user_message_lower)
        THEN [template |-> "transportation",
              values |-> head \o <<str(get(metadata, "committee_referral", NotAvailable))>>]
        ELSE [template |-> "general",
              values |-> head \o <<str(get(metadata, "committee_referral", NotAvailable)),
                                   str(get(metadata, "introduction_date", NotAvailable)),
                                   prefix(best_doc.content, ExcerptLen),
                                   str(get(best_doc, "authority", NotAvailable)),
                                   str(get(best_doc, "category", <<>>)),
                                   str(get(best_doc, "document_type", <<>>))>>]

\* The fixed answer given when there is no candidate.
Apology == [template |-> "apology", values |-> <<>>]

\* One entry of sources_list.
source_entry(doc) ==
    [title |-> get(doc, "title", None),
     authority |-> get(doc, "authority", None),
     url |-> get(doc, "url", None),
     category |-> get(doc, "category", None),
     similarity_score |-> get(doc, "similarity_score", Zero),
     match_reasons |-> get(doc, "match_reasons", <<>>)]

\* A variant of the response that cites the first candidate alone.
chat_response_first_source(docs, user_message, recommended_documents) ==
    [answer |-> IF recommended_documents # <<>>
                THEN generate_legislation_response(user_message, recommended_documents[1])
                ELSE Apology,
     sources |-> [i \in 1..(IF recommended_documents # <<>> THEN 1 ELSE 0) |->
                    source_entry(recommended_documents[i])],
     confidence_score |-> IF recommended_documents # <<>>
                          THEN get(recommended_documents[1], "similarity_score",
                                   DefaultConfidence)
                          ELSE Zero,
     context_used |-> Len(recommended_documents),
     total_documents_searched |-> Len(docs)]

\* A variant of the response whose confidence is the score of the last
\* candidate.
chat_response_last_confidence(docs, user_message, recommended_documents) ==
    [answer |-> IF recommended_documents # <<>>
                THEN generate_legislation_response(user_message, recommended_documents[1])
                ELSE Apology,
     sources |-> [i \in 1..Len(recommended_documents) |->
                    source_entry(recommended_documents[i])],
     confidence_score |-> IF recommended_documents # <<>>
                          THEN get(recommended_documents[Len(recommended_documents)],
                                   "similarity_score", DefaultConfidence)
                          ELSE Zero,
     context_used |-> Len(recommended_documents),
     total_documents_searched |-> Len(docs)]

\* The response dict of generate_legislation_chat_response.
chat_response(docs, user_message, recommended_documents) ==
    [answer |-> IF recommended_documents # <<>>
                THEN generate_legislation_response(user_message, recommended_documents[1])
                ELSE Apology,
     sources |-> [i \in 1..Len(recommended_documents) |->
                    source_entry(recommended_documents[i])],
     confidence_score |-> IF recommended_documents # <<>>
                          THEN get(recommended_documents[1], "similarity_score",
                                   DefaultConfidence)
                          ELSE Zero,
     context_used |-> Len(recommended_documents),
     total_documents_searched |-> Len(docs)]

(***************************************************************************)
(* Inputs: the records the City Clerk API returns, and the requests        *)
(***************************************************************************)
MatterZoning ==
    [matterId |-> V_1, title |-> V_ZoningMap, recordNumber |-> V_O1,
     type |-> V_Ordinance, matterCategory |-> V_ZONING,
     statusDescription |-> V_Passed, filingSponsor |-> V_Lee,
     introductionDate |-> V_Date1, keyLegislation |-> LIT_YES,
     economicDisclosure |-> LIT_NO, routine |-> LIT_YES]

\* The same native record at a later fetch, amended.
MatterZoningAmended ==
    [matterId |-> V_1, title |-> V_ZoningFee, recordNumber |-> V_O1,
     type |-> V_Ordinance, matterCategory |-> V_ZONING,
     statusDescription |-> V_Failed, filingSponsor |-> V_Lee,
     introductionDate |-> V_Date2, keyLegislation |-> LIT_NO,
     economicDisclosure |-> LIT_NO, routine |-> LIT_YES]

\* A record with a null sponsor and an empty date.
MatterParking ==
    [matterId |-> V_2, title |-> V_ParkingFee, recordNumber |-> V_R2,
     type |-> V_Resolution, matterCategory |-> V_Parking,
     filingSponsor |-> None, introductionDate |-> <<>>,
     agreedCalendar |-> LIT_YES]

\* A record whose title is null.
MatterNullTitle ==
    [matterId |-> V_3, title |-> None, type |-> V_Order,
     matterCategory |-> V_Traffic, introductionDate |-> V_Date1]

\* A record whose category is null.
MatterNullCategory ==
    [matterId |-> V_3, title |-> V_ParkingFee, type |-> V_Order,
     matterCategory |-> None]

Matters ==
    {MatterZoning, MatterZoningAmended, MatterParking, MatterNullTitle,
     MatterNullCategory}

\* The normalizer and the three derived fields are functions of the record
\* alone; they are tabulated over the records of the model.
Normalized ==
    [matter \in {m \in Matters : ~process_raises(m)} |-> process_legislation_item(matter)]

Enhanced ==
    [doc \in {Normalized[m] : m \in DOMAIN Normalized} |-> enhance(doc)]

\* The list a fetch builds from the records of the response: `if doc:`
\* drops the None of a record whose normalization raised.
RECURSIVE process_all(_)
process_all(matters) ==
    IF matters = <<>> THEN <<>>
    ELSE (IF process_raises(Head(matters)) THEN <<>> ELSE <<Normalized[Head(matters)]>>)
         \o process_all(Tail(matters))

\* The most records one fetch returns.
MaxFetch == 2

\* The lists of at most n records.
RecordLists(n) == UNION {[1..k -> Matters] : k \in 0..n}

\* What one fetch of the matters endpoint ends in: the JSON data, an
\* aiohttp.ClientError, or an exception that is no ClientError (a timeout,
\* an undecodable body).
FetchOutcomes(n) ==
    {[kind |-> "data", data |-> ms] : ms \in RecordLists(n)}
    \cup {[kind |-> "client_error", data |-> <<>>], [kind |-> "other_error", data |-> <<>>]}

\* The number of category fetches of one ingestion.
NumCategoryFetches == 5

\* The fetches of one ingestion: the recent fetch ends in r, the w-th
\* category fetch in c, and the other category fetches return no record.
IngestPlan(r, c, w) ==
    [recent |-> r,
     categories |-> [i \in 1..NumCategoryFetches |->
                        IF i = w THEN c ELSE [kind |-> "data", data |-> <<>>]]]

IngestPlans ==
    {IngestPlan(r, c, w) :
        r \in FetchOutcomes(MaxFetch), c \in FetchOutcomes(1), w \in 1..NumCategoryFetches}

\* The free-text queries of the search requests.
Queries ==
    {<<>>, <<" ">>, <<"Z","o","n","i","n","g"," ","f","e","e">>, <<"z","o","n">>,
     <<"f","e","e">>, <<"n","o","n","e">>}

\* The jurisdiction filters: unset, empty, the one of every document, another.
JurisdictionFilters == {None, <<>>, LIT_chicago, <<"e","v","a","n","s","t","o","n">>}

\* The category filters: unset, and two categories.
CategoryFilters == {None, CAT_construction, CAT_transportation}

\* The largest limit of a request, and how far below zero a limit goes.
MaxLimit == 2

MaxNegLimit == 1

Limits == (0 - MaxNegLimit)..MaxLimit

\* The messages of the chat requests.
Messages ==
    {<<" ">>, <<"z","o","n","i","n","g"," ","f","e","e">>,
     <<"p","a","r","k","i","n","g"," ","l","i","c","e","n","s","e">>,
     <<"h","e","l","l","o"," ","f","e","e">>}

\* The most turns the chat history grows to.
MaxHistory == 4

(***************************************************************************)
(* Real-data service (app/services/real_chicago_data_service.py)           *)
(***************************************************************************)
\* The five fetchers build their documents the same way; each is given here
\* by the literals and the record keys of its code.  `content` lists the
\* (label, key, default) of the sentences of its _create_*_content; `metadata`
\* maps a metadata key to the record key it is read from.
BuildingPermits ==
    [source |-> <<"c","h","i","c","a","g","o","_","b","u","i","l","d","i","n","g","_","p","e","r","m","i","t","s","_","r","e","a","l">>,
     id_prefix |-> <<"c","h","i","c","a","g","o","_","p","e","r","m","i","t","s","_","r","e","a","l","_">>,
     id_key |-> "id",
     title_prefix |-> <<"B","u","i","l","d","i","n","g"," ","P","e","r","m","i","t"," ","-"," ">>,
     title_key |-> "permit_type",
     title_default |-> <<"U","n","k","n","o","w","n"," ","T","y","p","e">>,
     content |-> <<[label |-> <<"B","u","i","l","d","i","n","g"," ","P","e","r","m","i","t"," ","A","p","p","l","i","c","a","t","i","o","n"," ","f","o","r"," ">>, key |-> "permit_type", default |-> <<"U","n","k","n","o","w","n"," ","T","y","p","e">>],
                   [label |-> <<"W","o","r","k"," ","D","e","s","c","r","i","p","t","i","o","n",":"," ">>, key |-> "work_description", default |-> <<"N","o","t"," ","s","p","e","c","i","f","i","e","d">>],
                   [label |-> <<"T","o","t","a","l"," ","F","e","e","s",":"," ","$">>, key |-> "total_fees", default |-> <<"0">>],
                   [label |-> <<"R","e","p","o","r","t","e","d"," ","C","o","s","t",":"," ","$">>, key |-> "reported_cost", default |-> <<"0">>],
                   [label |-> <<"C","o","m","m","u","n","i","t","y"," ","A","r","e","a",":"," ">>, key |-> "community_area", default |-> <<"N","o","t"," ","s","p","e","c","i","f","i","e","d">>],
                   [label |-> <<"Z","i","p"," ","C","o","d","e",":"," ">>, key |-> "zip_code", default |-> <<"N","o","t"," ","s","p","e","c","i","f","i","e","d">>],
                   [label |-> <<"A","p","p","l","i","c","a","t","i","o","n"," ","S","t","a","r","t"," ","D","a","t","e",":"," ">>, key |-> "application_start_date", default |-> <<"N","o","t"," ","s","p","e","c","i","f","i","e","d">>]>>,
     document_type |-> <<"p","e","r","m","i","t">>,
     category |-> <<"c","o","n","s","t","r","u","c","t","i","o","n">>,
     authority |-> <<"C","h","i","c","a","g","o"," ","D","e","p","a","r","t","m","e","n","t"," ","o","f"," ","B","u","i","l","d","i","n","g","s">>,
     url |-> <<"h","t","t","p","s",":","/","/","d","a","t","a",".","c","i","t","y","o","f","c","h","i","c","a","g","o",".","o","r","g","/","B","u","i","l","d","i","n","g","s","/","B","u","i","l","d","i","n","g","-","P","e","r","m","i","t","s","/","y","d","r","8","-","5","e","n","u">>,
     date_key |-> "application_start_date",
     metadata |-> [permit_type |-> "permit_type", work_description |-> "work_description", total_fees |-> "total_fees", reported_cost |-> "reported_cost", community_area |-> "community_area", zip_code |-> "zip_code", latitude |-> "latitude", longitude |-> "longitude"]]

BusinessLicenses ==
    [source |-> <<"c","h","i","c","a","g","o","_","b","u","s","i","n","e","s","s","_","l","i","c","e","n","s","e","s","_","r","e","a","l">>,
     id_prefix |-> <<"c","h","i","c","a","g","o","_","l","i","c","e","n","s","e","_","r","e","a","l","_">>,
     id_key |-> "id",
     title_prefix |-> <<"B","u","s","i","n","e","s","s"," ","L","i","c","e","n","s","e"," ","-"," ">>,
     title_key |-> "business_activity",
     title_default |-> <<"U","n","k","n","o","w","n"," ","A","c","t","i","v","i","t","y">>,
     content |-> <<[label |-> <<"B","u","s","i","n","e","s","s"," ","L","i","c","e","n","s","e"," ","f","o","r"," ">>, key |-> "business_activity", default |-> <<"U","n","k","n","o","w","n"," ","A","c","t","i","v","i","t","y">>],
                   [label |-> <<"L","i","c","e","n","s","e"," ","D","e","s","c","r","i","p","t","i","o","n",":"," ">>, key |-> "license_description", default |-> <<"N","o","t"," ","s","p","e","c","i","f","i","e","d">>],
                   [label |-> <<"L","i","c","e","n","s","e"," ","S","t","a","t","u","s",":"," ">>, key |-> "license_status", default |-> <<"U","n","k","n","o","w","n">>],
                   [label |-> <<"Z","i","p"," ","C","o","d","e",":"," ">>, key |-> "zip_code", default |-> <<"N","o","t"," ","s","p","e","c","i","f","i","e","d">>],
                   [label |-> <<"W","a","r","d",":"," ">>, key |-> "ward", default |-> <<"N","o","t"," ","s","p","e","c","i","f","i","e","d">>],
                   [label |-> <<"L","i","c","e","n","s","e"," ","S","t","a","r","t"," ","D","a","t","e",":"," ">>, key |-> "license_start_date", default |-> <<"N","o","t"," ","s","p","e","c","i","f","i","e","d">>]>>,
     document_type |-> <<"l","i","c","e","n","s","e">>,
     category |-> <<"b","u","s","i","n","e","s","s">>,
     authority |-> <<"C","h","i","c","a","g","o"," ","D","e","p","a","r","t","m","e","n","t"," ","o","f"," ","B","u","s","i","n","e","s","s"," ","A","f","f","a","i","r","s"," ","a","n","d"," ","C","o","n","s","u","m","e","r"," ","P","r","o","t","e","c","t","i","o","n">>,
     url |-> <<"h","t","t","p","s",":","/","/","d","a","t","a",".","c","i","t","y","o","f","c","h","i","c","a","g","o",".","o","r","g","/","B","u","s","i","n","e","s","s","-","E","c","o","n","o","m","i","c","-","D","e","v","e","l","o","p","m","e","n","t","-","O","p","p","o","r","t","u","n","i","t","y","/","B","u","s","i","n","e","s","s","-","L","i","c","e","n","s","e","s","/","u","u","p","f","-","x","9","8","q">>,
     date_key |-> "license_start_date",
     metadata |-> [business_activity |-> "business_activity", license_description |-> "license_description", license_status |-> "license_status", zip_code |-> "zip_code", ward |-> "ward", latitude |-> "latitude", longitude |-> "longitude"]]

CityCouncilMeetings ==
    [source |-> <<"c","h","i","c","a","g","o","_","c","i","t","y","_","c","o","u","n","c","i","l","_","r","e","a","l">>,
     id_prefix |-> <<"c","h","i","c","a","g","o","_","m","e","e","t","i","n","g","_","r","e","a","l","_">>,
     id_key |-> "id",
     title_prefix |-> <<"C","i","t","y"," ","C","o","u","n","c","i","l"," ","M","e","e","t","i","n","g"," ","-"," ">>,
     title_key |-> "meeting_date",
     title_default |-> <<"U","n","k","n","o","w","n"," ","D","a","t","e">>,
     content |-> <<[label |-> <<"C","i","t","y"," ","C","o","u","n","c","i","l"," ","M","e","e","t","i","n","g"," ","o","n"," ">>, key |-> "meeting_date", default |-> <<"U","n","k","n","o","w","n"," ","D","a","t","e">>],
                   [label |-> <<"M","e","e","t","i","n","g"," ","T","y","p","e",":"," ">>, key |-> "meeting_type", default |-> <<"N","o","t"," ","s","p","e","c","i","f","i","e","d">>],
                   [label |-> <<"A","g","e","n","d","a"," ","I","t","e","m","s",":"," ">>, key |-> "agenda_items", default |-> <<"N","o","t"," ","s","p","e","c","i","f","i","e","d">>],
                   [label |-> <<"A","t","t","e","n","d","a","n","c","e",":"," ">>, key |-> "attendance", default |-> <<"N","o","t"," ","s","p","e","c","i","f","i","e","d">>],
                   [label |-> <<"L","o","c","a","t","i","o","n",":"," ">>, key |-> "location", default |-> <<"N","o","t"," ","s","p","e","c","i","f","i","e","d">>]>>,
     document_type |-> <<"m","e","e","t","i","n","g","_","r","e","c","o","r","d">>,
     category |-> <<"g","o","v","e","r","n","a","n","c","e">>,
     authority |-> <<"C","h","i","c","a","g","o"," ","C","i","t","y"," ","C","o","u","n","c","i","l">>,
     url |-> <<"h","t","t","p","s",":","/","/","d","a","t","a",".","c","i","t","y","o","f","c","h","i","c","a","g","o",".","o","r","g","/","C","i","t","y","-","G","o","v","e","r","n","m","e","n","t","/","C","i","t","y","-","C","o","u","n","c","i","l","-","M","e","e","t","i","n","g","s","/","7","c","8","c","-","9","w","7","x">>,
     date_key |-> "meeting_date",
     metadata |-> [meeting_type |-> "meeting_type", agenda_items |-> "agenda_items", attendance |-> "attendance", location |-> "location"]]

FoodInspections ==
    [source |-> <<"c","h","i","c","a","g","o","_","f","o","o","d","_","i","n","s","p","e","c","t","i","o","n","s","_","r","e","a","l">>,
     id_prefix |-> <<"c","h","i","c","a","g","o","_","f","o","o","d","_","r","e","a","l","_">>,
     id_key |-> "inspection_id",
     title_prefix |-> <<"F","o","o","d"," ","I","n","s","p","e","c","t","i","o","n"," ","-"," ">>,
     title_key |-> "dba_name",
     title_default |-> <<"U","n","k","n","o","w","n"," ","R","e","s","t","a","u","r","a","n","t">>,
     content |-> <<[label |-> <<"F","o","o","d"," ","I","n","s","p","e","c","t","i","o","n"," ","f","o","r"," ">>, key |-> "dba_name", default |-> <<"U","n","k","n","o","w","n"," ","R","e","s","t","a","u","r","a","n","t">>],
                   [label |-> <<"I","n","s","p","e","c","t","i","o","n"," ","T","y","p","e",":"," ">>, key |-> "inspection_type", default |-> <<"N","o","t"," ","s","p","e","c","i","f","i","e","d">>],
                   [label |-> <<"R","e","s","u","l","t","s",":"," ">>, key |-> "results", default |-> <<"N","o","t"," ","s","p","e","c","i","f","i","e","d">>],
                   [label |-> <<"V","i","o","l","a","t","i","o","n","s",":"," ">>, key |-> "violations", default |-> <<"N","o","n","e">>],
                   [label |-> <<"Z","i","p"," ","C","o","d","e",":"," ">>, key |-> "zip", default |-> <<"N","o","t"," ","s","p","e","c","i","f","i","e","d">>],
                   [label |-> <<"I","n","s","p","e","c","t","i","o","n"," ","D","a","t","e",":"," ">>, key |-> "inspection_date", default |-> <<"N","o","t"," ","s","p","e","c","i","f","i","e","d">>]>>,
     document_type |-> <<"i","n","s","p","e","c","t","i","o","n","_","r","e","p","o","r","t">>,
     category |-> <<"h","e","a","l","t","h","c","a","r","e">>,
     authority |-> <<"C","h","i","c","a","g","o"," ","D","e","p","a","r","t","m","e","n","t"," ","o","f"," ","P","u","b","l","i","c"," ","H","e","a","l","t","h">>,
     url |-> <<"h","t","t","p","s",":","/","/","d","a","t","a",".","c","i","t","y","o","f","c","h","i","c","a","g","o",".","o","r","g","/","H","e","a","l","t","h","-","H","u","m","a","n","-","S","e","r","v","i","c","e","s","/","F","o","o","d","-","I","n","s","p","e","c","t","i","o","n","s","/","4","i","j","n","-","s","7","e","5">>,
     date_key |-> "inspection_date",
     metadata |-> [dba_name |-> "dba_name", inspection_type |-> "inspection_type", results |-> "results", violations |-> "violations", zip_code |-> "zip", latitude |-> "latitude", longitude |-> "longitude"]]

BuildingViolations ==
    [source |-> <<"c","h","i","c","a","g","o","_","b","u","i","l","d","i","n","g","_","v","i","o","l","a","t","i","o","n","s","_","r","e","a","l">>,
     id_prefix |-> <<"c","h","i","c","a","g","o","_","v","i","o","l","a","t","i","o","n","_","r","e","a","l","_">>,
     id_key |-> "id",
     title_prefix |-> <<"B","u","i","l","d","i","n","g"," ","V","i","o","l","a","t","i","o","n"," ","-"," ">>,
     title_key |-> "violation_code",
     title_default |-> <<"U","n","k","n","o","w","n"," ","C","o","d","e">>,
     content |-> <<[label |-> <<"B","u","i","l","d","i","n","g"," ","V","i","o","l","a","t","i","o","n"," ","C","o","d","e",":"," ">>, key |-> "violation_code", default |-> <<"U","n","k","n","o","w","n">>],
                   [label |-> <<"V","i","o","l","a","t","i","o","n"," ","D","e","s","c","r","i","p","t","i","o","n",":"," ">>, key |-> "violation_description", default |-> <<"N","o","t"," ","s","p","e","c","i","f","i","e","d">>],
                   [label |-> <<"V","i","o","l","a","t","i","o","n"," ","S","t","a","t","u","s",":"," ">>, key |-> "violation_status", default |-> <<"U","n","k","n","o","w","n">>],
                   [label |-> <<"Z","i","p"," ","C","o","d","e",":"," ">>, key |-> "zip_code", default |-> <<"N","o","t"," ","s","p","e","c","i","f","i","e","d">>],
                   [label |-> <<"V","i","o","l","a","t","i","o","n"," ","D","a","t","e",":"," ">>, key |-> "violation_date", default |-> <<"N","o","t"," ","s","p","e","c","i","f","i","e","d">>]>>,
     document_type |-> <<"v","i","o","l","a","t","i","o","n","_","n","o","t","i","c","e">>,
     category |-> <<"c","o","n","s","t","r","u","c","t","i","o","n">>,
     authority |-> <<"C","h","i","c","a","g","o"," ","D","e","p","a","r","t","m","e","n","t"," ","o","f"," ","B","u","i","l","d","i","n","g","s">>,
     url |-> <<"h","t","t","p","s",":","/","/","d","a","t","a",".","c","i","t","y","o","f","c","h","i","c","a","g","o",".","o","r","g","/","B","u","i","l","d","i","n","g","s","/","B","u","i","l","d","i","n","g","-","V","i","o","l","a","t","i","o","n","s","/","2","2","u","3","-","x","e","n","r">>,
     date_key |-> "violation_date",
     metadata |-> [violation_code |-> "violation_code", violation_description |-> "violation_description", violation_status |-> "violation_status", zip_code |-> "zip_code", latitude |-> "latitude", longitude |-> "longitude"]]

\* record.get(...) raises on a JSON item that is no object; such an item is
\* held as a record with the one field non_dict.
is_dict(record) == "non_dict" \notin DOMAIN record

\* The sentences of _create_*_content, each "<label><value>. ", the last one
\* closed by "." alone.
RECURSIVE create_content(_, _)
create_content(parts, record) ==
    IF parts = <<>> THEN <<>>
    ELSE Head(parts).label
         \o str(get(record, Head(parts).key, Head(parts).default))
         \o (IF Len(parts) > 1 THEN <<".", " ">> ELSE <<".">>)
         \o create_content(Tail(parts), record)

\* The doc dict a fetcher builds of one record.
real_document(src, record) ==
    [source |-> src.source,
     document_id |-> src.id_prefix \o str(get(record, src.id_key, <<"u","n","k","n","o","w","n">>)),
     title |-> src.title_prefix \o str(get(record, src.title_key, src.title_default)),
     content |-> create_content(src.content, record),
     document_type |-> src.document_type,
     category |-> src.category,
     jurisdiction |-> LIT_chicago,
     authority |-> src.authority,
     url |-> src.url,
     effective_date |-> get(record, src.date_key, None),
     metadata |-> [k \in DOMAIN src.metadata |-> get(record, src.metadata[k], None)]]

\* The tasks of fetch_all_real_chicago_data, in their order.
RealSources ==
    <<BuildingPermits, BusinessLicenses, CityCouncilMeetings, FoodInspections,
      BuildingViolations>>

\* The records the City of Chicago data sets return: a record, the same
\* record amended, a record without an id, and an item that is no object.
RecordPorch ==
    [id |-> <<"7">>, inspection_id |-> <<"7">>, permit_type |-> <<"P","o","r","c","h">>]

RecordPorchAmended ==
    [id |-> <<"7">>, inspection_id |-> <<"7">>, permit_type |-> <<"S","i","g","n">>,
     zip_code |-> None]

RecordNoId == [permit_type |-> <<"P","o","r","c","h">>]

\* Another record without an id.
RecordNoIdSign == [permit_type |-> <<"S","i","g","n">>]

NotADict == [non_dict |-> TRUE]

RealRecords == {RecordPorch, RecordPorchAmended, RecordNoId}

\* The doc dicts of the records, per fetcher, tabulated.
RealDocument ==
    [s \in 1..Len(RealSources) |->
        [record \in RealRecords \cup {RecordNoIdSign} |->
            real_document(RealSources[s], record)]]

\* What the GET of one fetcher ends in: a 200 with the JSON data, another
\* status, or an exception.
RealOutcomes ==
    {[kind |-> "data", data |-> rs] :
        rs \in UNION {[1..k -> RealRecords \cup {NotADict}] : k \in 0..MaxFetch}}
    \cup {[kind |-> "status", data |-> <<>>], [kind |-> "error", data |-> <<>>]}

\* fetch_real_*: the documents built until the data ends or an item raises
\* (the except keeps what was appended); nothing unless the status is 200.
RECURSIVE build_documents(_, _)
build_documents(s, data) ==
    IF data = <<>> THEN <<>>
    ELSE IF ~is_dict(Head(data)) THEN <<>>
    ELSE <<RealDocument[s][Head(data)]>> \o build_documents(s, Tail(data))

fetch_real(s, outcome) ==
    IF outcome.kind = "data" THEN build_documents(s, outcome.data) ELSE <<>>

\* RealChicagoDataService.fetch_all_real_chicago_data: the lists of the five
\* tasks, concatenated in task order.
RECURSIVE fetch_all_real_chicago_data(_, _)
fetch_all_real_chicago_data(plan, s) ==
    IF s > Len(RealSources) THEN <<>>
    ELSE fetch_real(s, plan[s]) \o fetch_all_real_chicago_data(plan, s + 1)

\* The fetchers that find records: the permits, which read the key `id`,
\* and the food inspections, which read `inspection_id`.
DataFetchers == {1, 4}

\* One ingestion of the real-data server: the outcome of one fetcher, beside
\* fetchers that all find nothing, get another status, or fail.
RealPlan(outcome, w, others) ==
    [s \in 1..Len(RealSources) |->
        IF s = w THEN outcome ELSE [kind |-> others, data |-> <<>>]]

RealPlans ==
    {RealPlan(outcome, w, others) :
        outcome \in RealOutcomes, w \in DataFetchers, others \in {"data", "status", "error"}}

\* The most documents the real-data server's store grows to.
MaxRealDocs == 3

\* The most exchanges the real-data server's conversation history grows to.
MaxConversation == 1

(***************************************************************************)
(* Real-data server (real_chicago_api_server.py): search and chat          *)
(***************************************************************************)
\* content[:200] of the answer templates.
SimpleExcerptLen == 200

\* A variant of the score with the two weights exchanged.
simple_score_weights_exchanged(query_words, doc) ==
    LET n_content == Cardinality(query_words \cap split_set(lower(doc.content)))
        n_title == Cardinality(query_words \cap split_set(lower(doc.title)))
    IN  Rat(15 * n_content + 7 * n_title, 10 * Cardinality(query_words))

\* similarity_score of one document:
\* (content_matches * 0.7 + title_matches * 1.5) / len(query_words).
simple_score(query_words, doc) ==
    LET n_content ==
            Cardinality(query_words \cap split_set(lower(doc.content)))
        n_title ==
            Cardinality(query_words \cap split_set(lower(doc.title)))
    IN  Rat(7 * n_content + 15 * n_title, 10 * Cardinality(query_words))

\* The ZeroDivisionError of the division by len(query_words): a query without
\* a word, scored against a first document.
similarity_raises(docs, query) ==
    docs # <<>> /\ split_set(lower(query)) = {}

\* simple_similarity_search, when it does not raise.
simple_similarity_search(docs, query, top_k) ==
    LET query_words == split_set(lower(query))
        positive(doc) == rat_less(Zero, simple_score(query_words, doc))
        kept == SelectSeq(docs, positive)
        scored_docs ==
            [i \in 1..Len(kept) |->
                [similarity_score |-> rat_min(simple_score(query_words, kept[i]), One)]
                @@ kept[i]]
    IN  slice_to(sort_by_score(scored_docs), top_k)

\* generate_simple_answer: the apology when no document was found, else the
\* first template whose words occur in the question, filled from the top
\* document.
generate_simple_answer(question, relevant_docs) ==
    IF relevant_docs = <<>>
    THEN <<"I"," ","d","o","n","'","t"," ","h","a","v","e"," ","s","p","e","c","i","f","i","c"," ","C","h","i","c","a","g","o"," ","l","e","g","a","l"," ","d","o","c","u","m","e","n","t","s"," ","t","o"," ","a","n","s","w","e","r"," ","y","o","u","r"," ","q","u","e","s","t","i","o","n"," ","a","b","o","u","t"," ","'">>
         \o question
         \o <<"'","."," ","P","l","e","a","s","e"," ","t","r","y"," ","r","e","p","h","r","a","s","i","n","g"," ","y","o","u","r"," ","q","u","e","s","t","i","o","n"," ","o","r"," ","s","e","a","r","c","h"," ","f","o","r"," ","m","o","r","e"," ","s","p","e","c","i","f","i","c"," ","t","e","r","m","s",".">>
    ELSE LET top_doc == relevant_docs[1]
             content == top_doc.content
             title == top_doc.title
             authority == top_doc.authority
             question_lower == lower(question)
             any(words) == \E word \in words : contains(word, question_lower)
         IN
           IF any({<<"h","o","w">>, <<"p","r","o","c","e","s","s">>, <<"p","r","o","c","e","d","u","r","e">>, <<"s","t","e","p","s">>})
           THEN <<"B","a","s","e","d"," ","o","n"," ","t","h","e"," ","r","e","a","l"," ","C","h","i","c","a","g","o"," ","d","o","c","u","m","e","n","t"," ","'">>
              \o title
              \o <<"'"," ","f","r","o","m"," ","t","h","e"," ">>
              \o authority
              \o <<":"," ">>
              \o prefix(content, SimpleExcerptLen)
              \o <<".",".","."," ","T","o"," ","p","r","o","c","e","e","d",","," ","y","o","u"," ","s","h","o","u","l","d"," ","c","o","n","t","a","c","t"," ","t","h","e"," ">>
              \o authority
              \o <<" ","d","i","r","e","c","t","l","y"," ","o","r"," ","v","i","s","i","t"," ","t","h","e","i","r"," ","w","e","b","s","i","t","e"," ","f","o","r"," ","t","h","e"," ","c","o","m","p","l","e","t","e"," ","p","r","o","c","e","s","s"," ","a","n","d"," ","r","e","q","u","i","r","e","m","e","n","t","s",".">>
           ELSE IF any({<<"w","h","a","t">>, <<"r","e","q","u","i","r","e","m","e","n","t","s">>, <<"n","e","e","d">>, <<"r","e","q","u","i","r","e","d">>})
           THEN <<"A","c","c","o","r","d","i","n","g"," ","t","o"," ","t","h","e"," ","r","e","a","l"," ","C","h","i","c","a","g","o"," ","d","a","t","a"," ","'">>
              \o title
              \o <<"'"," ","f","r","o","m"," ","t","h","e"," ">>
              \o authority
              \o <<":"," ">>
              \o prefix(content, SimpleExcerptLen)
              \o <<".",".","."," ","T","h","i","s"," ","d","o","c","u","m","e","n","t"," ","o","u","t","l","i","n","e","s"," ","t","h","e"," ","s","p","e","c","i","f","i","c"," ","r","e","q","u","i","r","e","m","e","n","t","s"," ","a","n","d"," ","r","e","g","u","l","a","t","i","o","n","s"," ","f","o","r"," ">>
              \o top_doc.category
              \o <<" ","i","n"," ","C","h","i","c","a","g","o",".">>
           ELSE IF any({<<"w","h","e","n">>, <<"t","i","m","e">>, <<"d","e","a","d","l","i","n","e">>, <<"s","c","h","e","d","u","l","e">>})
           THEN <<"B","a","s","e","d"," ","o","n"," ","t","h","e"," ","r","e","a","l"," ","C","h","i","c","a","g","o"," ","d","a","t","a"," ","'">>
              \o title
              \o <<"'"," ","f","r","o","m"," ","t","h","e"," ">>
              \o authority
              \o <<":"," ">>
              \o prefix(content, SimpleExcerptLen)
              \o <<".",".","."," ","T","h","e"," ","d","o","c","u","m","e","n","t"," ","s","p","e","c","i","f","i","e","s"," ","t","i","m","i","n","g"," ","r","e","q","u","i","r","e","m","e","n","t","s"," ","a","n","d"," ","d","e","a","d","l","i","n","e","s"," ","f","o","r"," ">>
              \o top_doc.category
              \o <<" ","i","n"," ","C","h","i","c","a","g","o",".">>
           ELSE IF any({<<"w","h","e","r","e">>, <<"l","o","c","a","t","i","o","n">>, <<"o","f","f","i","c","e">>, <<"c","o","n","t","a","c","t">>})
           THEN <<"A","c","c","o","r","d","i","n","g"," ","t","o"," ","t","h","e"," ","r","e","a","l"," ","C","h","i","c","a","g","o"," ","d","a","t","a"," ","'">>
              \o title
              \o <<"'"," ","f","r","o","m"," ","t","h","e"," ">>
              \o authority
              \o <<":"," ">>
              \o prefix(content, SimpleExcerptLen)
              \o <<".",".","."," ","F","o","r"," ","m","o","r","e"," ","i","n","f","o","r","m","a","t","i","o","n"," ","a","b","o","u","t"," ","l","o","c","a","t","i","o","n","s"," ","a","n","d"," ","c","o","n","t","a","c","t"," ","d","e","t","a","i","l","s",","," ","y","o","u"," ","s","h","o","u","l","d"," ","v","i","s","i","t"," ","t","h","e"," ">>
              \o authority
              \o <<" ","w","e","b","s","i","t","e"," ","o","r"," ","c","o","n","t","a","c","t"," ","t","h","e","m"," ","d","i","r","e","c","t","l","y",".">>
           ELSE IF any({<<"c","o","s","t">>, <<"f","e","e">>, <<"p","r","i","c","e">>, <<"c","h","a","r","g","e">>})
           THEN <<"B","a","s","e","d"," ","o","n"," ","t","h","e"," ","r","e","a","l"," ","C","h","i","c","a","g","o"," ","d","a","t","a"," ","'">>
              \o title
              \o <<"'"," ","f","r","o","m"," ","t","h","e"," ">>
              \o authority
              \o <<":"," ">>
              \o prefix(content, SimpleExcerptLen)
              \o <<".",".","."," ","T","h","i","s"," ","d","o","c","u","m","e","n","t"," ","c","o","n","t","a","i","n","s"," ","i","n","f","o","r","m","a","t","i","o","n"," ","a","b","o","u","t"," ","f","e","e","s"," ","a","n","d"," ","c","o","s","t","s"," ","a","s","s","o","c","i","a","t","e","d"," ","w","i","t","h"," ">>
              \o top_doc.category
              \o <<" ","i","n"," ","C","h","i","c","a","g","o",".">>
           ELSE <<"B","a","s","e","d"," ","o","n"," ","t","h","e"," ","r","e","a","l"," ","C","h","i","c","a","g","o"," ","d","a","t","a"," ","'">>
              \o title
              \o <<"'"," ","f","r","o","m"," ","t","h","e"," ">>
              \o authority
              \o <<":"," ">>
              \o prefix(content, SimpleExcerptLen)
              \o <<".",".","."," ","T","h","i","s"," ","i","n","f","o","r","m","a","t","i","o","n"," ","r","e","l","a","t","e","s"," ","t","o"," ">>
              \o top_doc.category
              \o <<" ","a","n","d"," ","m","a","y"," ","h","e","l","p"," ","a","n","s","w","e","r"," ","y","o","u","r"," ","q","u","e","s","t","i","o","n"," ","a","b","o","u","t"," ","C","h","i","c","a","g","o"," ","l","e","g","a","l"," ","m","a","t","t","e","r","s",".">>

\* classify_document_simple: the first keyword list with a word in the text.
classify_document_simple(text) ==
    LET text_lower == lower(text)
        any(words) == \E word \in words : contains(word, text_lower)
    IN  IF any({<<"b","u","i","l","d","i","n","g">>, <<"c","o","n","s","t","r","u","c","t","i","o","n">>, <<"p","e","r","m","i","t">>, <<"c","o","n","t","r","a","c","t","o","r">>, <<"v","i","o","l","a","t","i","o","n">>})
        THEN CAT_construction
        ELSE IF any({<<"b","u","s","i","n","e","s","s">>, <<"l","i","c","e","n","s","e">>, <<"c","o","m","p","a","n","y">>, <<"e","n","t","e","r","p","r","i","s","e">>})
        THEN CAT_business
        ELSE IF any({<<"c","o","u","n","c","i","l">>, <<"m","e","e","t","i","n","g">>, <<"g","o","v","e","r","n","a","n","c","e">>, <<"c","i","t","y">>})
        THEN CAT_governance
        ELSE IF any({<<"f","o","o","d">>, <<"i","n","s","p","e","c","t","i","o","n">>, <<"r","e","s","t","a","u","r","a","n","t">>, <<"h","e","a","l","t","h">>})
        THEN CAT_healthcare
        ELSE CAT_general

(***************************************************************************)
(* The service and its request handlers                                    *)
(***************************************************************************)
VARIABLES
    documents,      \* self.documents: the values of the dict, in insertion order
    chat_history,   \* self.chat_history
    response,       \* what the operation in progress returns to its caller
    ingested,       \* history variable: document_id -> the last document an
                    \* ingestion stored under it
    real_server_documents,  \* the global `documents` of real_chicago_api_server.py
    real_ingested,  \* history variable, as `ingested`, of the real-data server
    conversation_history,   \* the global `conversation_history` of that server
    in_flight       \* the ingestion coroutines, each one not started, suspended
                    \* at the await of a fetch, or returned

vars == <<documents, chat_history, response, ingested, real_server_documents,
          real_ingested, conversation_history, in_flight>>

real_vars == <<real_server_documents, real_ingested, conversation_history>>

\* No operation in progress: requests are served one at a time.
Idle == [op |-> "idle"]

\* The ingestion requests that may overlap.
Tasks == {"first", "second"}

\* A coroutine that has not started.
NotStarted == [status |-> "not_started"]

Init ==
    /\ documents = <<>>
    /\ chat_history = <<>>
    /\ response = Idle
    /\ ingested = <<>>
    /\ real_server_documents = <<>>
    /\ real_ingested = <<>>
    /\ conversation_history = <<>>
    /\ in_flight = [t \in Tasks |-> NotStarted]

\* A variant of the store loop in which the key of a document depends on
\* the corpus it is stored into.
RECURSIVE store_all_state_keyed(_, _)
store_all_state_keyed(docs, all_documents) ==
    IF all_documents = <<>> THEN docs
    ELSE store_all_state_keyed(
            upsert(docs, [Enhanced[Head(all_documents)] EXCEPT
                            !.document_id = IF docs = <<>> THEN @ ELSE @ \o <<"'">>]),
            Tail(all_documents))

\* The store loop over all_documents.
RECURSIVE store_all(_, _)
store_all(docs, all_documents) ==
    IF all_documents = <<>> THEN docs
    ELSE store_all(upsert(docs, Enhanced[Head(all_documents)]), Tail(all_documents))

\* What a fetch returns: the normalized records, or [] after a ClientError.
fetch_legislation(outcome) ==
    IF outcome.kind = "data" THEN process_all(outcome.data) ELSE <<>>

\* An exception of a fetch that its except clause does not catch.
ingest_raises(plan) ==
    \/ plan.recent.kind = "other_error"
    \/ \E i \in 1..NumCategoryFetches : plan.categories[i].kind = "other_error"

RECURSIVE category_documents(_, _)
category_documents(plan, i) ==
    IF i > NumCategoryFetches THEN <<>>
    ELSE fetch_legislation(plan.categories[i]) \o category_documents(plan, i + 1)

\* all_documents of ingest_comprehensive_legislation.
all_documents(plan) == fetch_legislation(plan.recent) \o category_documents(plan, 1)

\* POST /api/v1/ingest/legislation: ingest_comprehensive_legislation, and the
\* 500 of the handler when a fetch raised.
IngestLegislation(plan) ==
    /\ response = Idle
    /\ IF ingest_raises(plan)
       THEN /\ response' = [op |-> "ingest", status |-> 500]
            /\ UNCHANGED <<documents, ingested>>
       ELSE LET all == all_documents(plan)
                ids == {all[i].document_id : i \in 1..Len(all)}
                last(id) == CHOOSE i \in 1..Len(all) :
                                /\ all[i].document_id = id
                                /\ \A j \in 1..Len(all) : all[j].document_id = id => j <= i
            IN  /\ documents' = store_all(documents, all)
                /\ ingested' = [id \in (DOMAIN ingested) \cup ids |->
                                   IF id \in ids THEN Enhanced[all[last(id)]]
                                   ELSE ingested[id]]
                /\ response' = [op |-> "ingest", status |-> 200,
                                documents_loaded |-> Len(all),
                                categories |-> breakdown(documents', "category"),
                                sources |-> breakdown(documents', "source")]
    /\ UNCHANGED <<chat_history, real_vars, in_flight>>

\* A call of ChicagoLegislationService.advanced_semantic_search.
Search(query, jurisdiction, category, limit) ==
    /\ response = Idle
    /\ response' =
        [op |-> "search",
         request |-> [query |-> query, jurisdiction |-> jurisdiction,
                      category |-> category, limit |-> limit],
         raised |-> search_raises(documents, jurisdiction, category),
         results |-> IF search_raises(documents, jurisdiction, category) THEN <<>>
                     ELSE advanced_semantic_search(documents, query, jurisdiction,
                                                   category, limit)]
    /\ UNCHANGED <<documents, chat_history, ingested, real_vars, in_flight>>

\* POST /api/v1/search/semantic: 400 on a blank query, 500 when the search
\* raised.
SearchEndpoint(query, jurisdiction, category, limit) ==
    /\ response = Idle
    /\ response' =
        IF strip(query) = <<>>
        THEN [op |-> "search_endpoint", status |-> 400, query |-> query]
        ELSE IF search_raises(documents, jurisdiction, category)
        THEN [op |-> "search_endpoint", status |-> 500, query |-> query]
        ELSE LET results == advanced_semantic_search(documents, query, jurisdiction,
                                                     category, limit)
             IN  [op |-> "search_endpoint", status |-> 200,
                  request |-> [query |-> query, jurisdiction |-> jurisdiction,
                               category |-> category, limit |-> limit],
                  total_results |-> Len(results), results |-> results,
                  total_documents_searched |-> Len(documents)]
    /\ UNCHANGED <<documents, chat_history, ingested, real_vars, in_flight>>

\* A variant of the chat call that records the answer without the user's
\* message.
Chat_answer_only(user_message, recommended_documents, op) ==
    LET answer == chat_response(documents, user_message, recommended_documents)
    IN  /\ chat_history' = Append(chat_history, [role |-> "ai", message |-> answer.answer])
        /\ response' = [op |-> op, status |-> 200, user_message |-> user_message,
                        candidates |-> recommended_documents, answer |-> answer]

\* A call of ChicagoLegislationService.generate_legislation_chat_response.
Chat(user_message, recommended_documents, op) ==
    LET answer == chat_response(documents, user_message, recommended_documents)
    IN  /\ chat_history' = chat_history
               \o <<[role |-> "user", message |-> user_message],
                    [role |-> "ai", message |-> answer.answer]>>
        /\ response' = [op |-> op, status |-> 200, user_message |-> user_message,
                        candidates |-> recommended_documents, answer |-> answer]

\* A direct call of the service's chat operation, with documents of the
\* corpus as the candidates.
ChatCall(user_message, recommended_documents) ==
    /\ response = Idle
    /\ Len(chat_history) + 2 <= MaxHistory
    /\ Chat(user_message, recommended_documents, "chat")
    /\ UNCHANGED <<documents, ingested, real_vars, in_flight>>

\* POST /api/v1/chat/ask: 400 on a blank message, 500 when the search raised.
AskEndpoint(user_message, use_context, max_context_docs) ==
    /\ response = Idle
    /\ Len(chat_history) + 2 <= MaxHistory
    /\ IF strip(user_message) = <<>>
       THEN /\ response' = [op |-> "ask_endpoint", status |-> 400,
                            user_message |-> user_message]
            /\ UNCHANGED chat_history
       ELSE IF use_context /\ search_raises(documents, LIT_chicago, None)
       THEN /\ response' = [op |-> "ask_endpoint", status |-> 500,
                            user_message |-> user_message]
            /\ UNCHANGED chat_history
       ELSE Chat(user_message,
                 IF use_context
                 THEN advanced_semantic_search(documents, user_message, LIT_chicago, None,
                                               max_context_docs)
                 ELSE <<>>,
                 "ask_endpoint")
    /\ UNCHANGED <<documents, ingested, real_vars, in_flight>>

\* s[-limit:]: the last `limit` items; all of them when limit is 0 (s[-0:] is
\* s[0:]) or exceeds the length, and s[k:] for a negative limit -k.
slice_last(s, limit) ==
    IF limit > 0 THEN SubSeq(s, (IF Len(s) > limit THEN Len(s) - limit ELSE 0) + 1, Len(s))
    ELSE SubSeq(s, (IF 0 - limit < Len(s) THEN 0 - limit ELSE Len(s)) + 1, Len(s))

\* GET /api/v1/chat/history
GetChatHistory(limit) ==
    /\ response = Idle
    /\ response' = [op |-> "history", status |-> 200, limit |-> limit,
                    total_messages |-> Len(slice_last(chat_history, limit)),
                    chat_history |-> slice_last(chat_history, limit)]
    /\ UNCHANGED <<documents, chat_history, ingested, real_vars, in_flight>>

\* POST /api/v1/chat/clear
ClearChatHistory ==
    /\ response = Idle
    /\ chat_history' = <<>>
    /\ response' = [op |-> "clear", status |-> 200]
    /\ UNCHANGED <<documents, ingested, real_vars, in_flight>>

\* The code point of a character of a date.
ord(c) ==
    IF c = "-" THEN 45
    ELSE 47 + (CHOOSE i \in 1..10 :
                <<"0", "1", "2", "3", "4", "5", "6", "7", "8", "9">>[i] = c)

\* a < b for two str: the first differing character decides, a proper prefix
\* is smaller.
RECURSIVE str_less(_, _)
str_less(a, b) ==
    IF b = <<>> THEN FALSE
    ELSE IF a = <<>> THEN TRUE
    ELSE IF Head(a) = Head(b) THEN str_less(Tail(a), Tail(b))
    ELSE ord(Head(a)) < ord(Head(b))

\* The range over the effective_date of every document, empty ones included.
get_date_range_of_all(docs) ==
    LET dates == {docs[i].effective_date : i \in 1..Len(docs)}
    IN  IF dates # {}
        THEN [earliest |-> CHOOSE d \in dates : \A e \in dates : ~str_less(e, d),
              latest |-> CHOOSE d \in dates : \A e \in dates : ~str_less(d, e)]
        ELSE [earliest |-> NotAvailable, latest |-> NotAvailable]

\* _get_date_range: min and max of the truthy effective_date values.
get_date_range(docs) ==
    LET dates == {docs[i].effective_date : i \in {k \in 1..Len(docs) :
                                                    truthy(docs[k].effective_date)}}
    IN  IF dates # {}
        THEN [earliest |-> CHOOSE d \in dates : \A e \in dates : ~str_less(e, d),
              latest |-> CHOOSE d \in dates : \A e \in dates : ~str_less(d, e)]
        ELSE [earliest |-> NotAvailable, latest |-> NotAvailable]

\* GET /api/v1/documents/stats/legislation: get_legislation_stats.
GetLegislationStats ==
    /\ response = Idle
    /\ response' = [op |-> "stats", status |-> 200,
                    total_documents |-> Len(documents),
                    categories |-> breakdown(documents, "category"),
                    sources |-> breakdown(documents, "source"),
                    authorities |-> {documents[i].authority : i \in 1..Len(documents)},
                    date_range |-> get_date_range(documents),
                    legislation_types |-> breakdown(documents, "document_type")]
    /\ UNCHANGED <<documents, chat_history, ingested, real_vars, in_flight>>

\* GET /api/v1/documents/: the first `limit` documents, then the filters.
GetAllDocuments(limit, category, document_type) ==
    /\ response = Idle
    /\ LET in_category(doc) == doc.category = category
           of_type(doc) == doc.document_type = document_type
           first == slice_to(documents, limit)
           by_category == IF truthy(category) THEN SelectSeq(first, in_category) ELSE first
           by_type == IF truthy(document_type) THEN SelectSeq(by_category, of_type)
                      ELSE by_category
       IN  response' = [op |-> "list", status |-> 200, limit |-> limit,
                        category |-> category, document_type |-> document_type,
                        total_documents |-> Len(by_type), documents |-> by_type]
    /\ UNCHANGED <<documents, chat_history, ingested, real_vars, in_flight>>

\* GET /api/v1/documents/{document_id}: 404 when the id is not a key.
GetDocumentById(document_id) ==
    /\ response = Idle
    /\ response' =
        IF \E i \in 1..Len(documents) : documents[i].document_id = document_id
        THEN [op |-> "get", status |-> 200, document_id |-> document_id,
              document |-> lookup(documents, document_id)]
        ELSE [op |-> "get", status |-> 404, document_id |-> document_id]
    /\ UNCHANGED <<documents, chat_history, ingested, real_vars, in_flight>>

\* for doc in real_documents: documents[doc["document_id"]] = doc
RECURSIVE store_real(_, _)
store_real(docs, real_documents) ==
    IF real_documents = <<>> THEN docs
    ELSE store_real(upsert(docs, Head(real_documents)), Tail(real_documents))

\* POST /api/v1/ingest/real-chicago of real_chicago_api_server.py.  No
\* fetcher raises, so the handler's 500 is never taken.
TriggerRealChicagoIngestion(plan, limit_per_source) ==
    /\ response = Idle
    /\ \A s \in 1..Len(plan) : Len(plan[s].data) <= limit_per_source
    /\ LET real_documents == fetch_all_real_chicago_data(plan, 1)
           ids == {real_documents[i].document_id : i \in 1..Len(real_documents)}
           last(id) == CHOOSE i \in 1..Len(real_documents) :
                        /\ real_documents[i].document_id = id
                        /\ \A j \in 1..Len(real_documents) :
                                real_documents[j].document_id = id => j <= i
       IN  /\ Len(store_real(real_server_documents, real_documents)) <= MaxRealDocs
           /\ real_server_documents' = store_real(real_server_documents, real_documents)
           /\ real_ingested' = [id \in (DOMAIN real_ingested) \cup ids |->
                                   IF id \in ids THEN real_documents[last(id)]
                                   ELSE real_ingested[id]]
           /\ response' = [op |-> "ingest_real", status |-> 200,
                           documents_loaded |-> Len(real_documents),
                           limit_per_source |-> limit_per_source]
    /\ UNCHANGED <<documents, chat_history, ingested, conversation_history, in_flight>>

\* A variant of the search that classifies the stored documents it returns
\* in place instead of classifying copies.
SemanticSearch_in_place(query, top_k, category) ==
    /\ response = Idle
    /\ LET found == IF similarity_raises(real_server_documents, query) THEN <<>>
                    ELSE simple_similarity_search(real_server_documents, query, top_k)
           wanted(r) == r.category = category
           filtered == IF truthy(category) THEN SelectSeq(found, wanted) ELSE found
           results ==
                [i \in 1..Len(filtered) |->
                    [filtered[i] EXCEPT
                        !.category = classify_document_simple(filtered[i].content),
                        !.jurisdiction = LIT_chicago]]
           returned == {filtered[i].document_id : i \in 1..Len(filtered)}
       IN  /\ response' =
                IF similarity_raises(real_server_documents, query)
                THEN [op |-> "real_search", status |-> 500, query |-> query]
                ELSE [op |-> "real_search", status |-> 200, query |-> query,
                      top_k |-> top_k, category |-> category,
                      results |-> results, total_results |-> Len(results)]
           /\ real_server_documents' =
                [i \in 1..Len(real_server_documents) |->
                    IF real_server_documents[i].document_id \in returned
                    THEN [real_server_documents[i] EXCEPT
                            !.category = classify_document_simple(real_server_documents[i].content)]
                    ELSE real_server_documents[i]]
    /\ UNCHANGED <<documents, chat_history, ingested, real_ingested, conversation_history, in_flight>>

\* POST /api/v1/search/semantic of real_chicago_api_server.py: the query goes
\* to simple_similarity_search unexamined; an exception becomes a 500.
SemanticSearch(query, top_k, category) ==
    /\ response = Idle
    /\ response' =
        IF similarity_raises(real_server_documents, query)
        THEN [op |-> "real_search", status |-> 500, query |-> query]
        ELSE LET found == simple_similarity_search(real_server_documents, query, top_k)
                 wanted(r) == r.category = category
                 filtered == IF truthy(category) THEN SelectSeq(found, wanted) ELSE found
                 results ==
                    [i \in 1..Len(filtered) |->
                        [filtered[i] EXCEPT
                            !.category = classify_document_simple(filtered[i].content),
                            !.jurisdiction = LIT_chicago]]
             IN  [op |-> "real_search", status |-> 200, query |-> query,
                  top_k |-> top_k, category |-> category,
                  results |-> results, total_results |-> Len(results)]
    /\ UNCHANGED <<documents, chat_history, ingested, real_vars, in_flight>>

\* The source entry of a context document of ask_question.
real_source_entry(doc) ==
    [title |-> doc.title, authority |-> doc.authority, url |-> doc.url,
     category |-> doc.category, similarity_score |-> doc.similarity_score]

\* POST /api/v1/chat/ask of real_chicago_api_server.py: the message goes to
\* the search (when use_context) and to the composer unexamined, and the
\* exchange is appended to conversation_history; an exception becomes a 500.
AskQuestion(message, use_context) ==
    /\ response = Idle
    /\ Len(conversation_history) < MaxConversation
    /\ IF use_context /\ similarity_raises(real_server_documents, message)
       THEN /\ response' = [op |-> "real_ask", status |-> 500, message |-> message]
            /\ UNCHANGED conversation_history
       ELSE \E relevant_docs \in
                    {IF use_context
                     THEN simple_similarity_search(real_server_documents, message, 3)
                     ELSE <<>>} :
            LET answer == generate_simple_answer(message, relevant_docs)
                confidence_score ==
                    IF relevant_docs # <<>>
                    THEN rat_min(rat_add(relevant_docs[1].similarity_score, Rat(2, 10)), One)
                    ELSE Rat(3, 10)
                sources ==
                    [i \in 1..Len(prefix(relevant_docs, 3)) |->
                        real_source_entry(relevant_docs[i])]
            IN  /\ conversation_history' =
                    Append(conversation_history,
                           [user_message |-> message, ai_response |-> answer,
                            sources |-> sources, jurisdiction |-> LIT_chicago])
                /\ response' = [op |-> "real_ask", status |-> 200, message |-> message,
                                answer |-> answer, sources |-> sources,
                                confidence_score |-> confidence_score,
                                context_used |-> Len(relevant_docs)]
    /\ UNCHANGED <<documents, chat_history, ingested, real_server_documents, real_ingested, in_flight>>

\* POST /api/v1/chat/clear of real_chicago_api_server.py
ClearConversationHistory ==
    /\ response = Idle
    /\ conversation_history' = <<>>
    /\ response' = [op |-> "real_clear", status |-> 200]
    /\ UNCHANGED <<documents, chat_history, ingested, real_server_documents, real_ingested, in_flight>>

\* The response goes to the caller, and the next request is taken.
Return ==
    /\ response # Idle
    /\ response' = Idle
    /\ UNCHANGED <<documents, chat_history, ingested, real_vars, in_flight>>

(***************************************************************************)
(* Ingestions as coroutines: the steps between the awaits                  *)
(***************************************************************************)
\* The number of fetches an ingestion of legislation awaits, one after the
\* other: the recent fetch and the category fetches.
NumFetches == NumCategoryFetches + 1

\* What the k-th awaited fetch of a legislation ingestion ends in.
fetch_outcome(plan, k) == IF k = 1 THEN plan.recent ELSE plan.categories[k - 1]

\* ingest_legislation up to its first await: the coroutine is suspended in
\* the recent fetch, with an empty all_documents.
BeginIngestLegislation(t, plan) ==
    /\ in_flight[t].status = "not_started"
    /\ \A u \in Tasks :
            in_flight[u].status # "not_started" => in_flight[u].server = "legislation"
    /\ in_flight' = [in_flight EXCEPT ![t] =
                        [status |-> "suspended", server |-> "legislation", plan |-> plan,
                         awaiting |-> 1, all_documents |-> <<>>]]
    /\ UNCHANGED <<documents, chat_history, response, ingested, real_vars>>

\* The document_ids of a fetched list.
ids_of_fetched(fetched) == {fetched[i].document_id : i \in 1..Len(fetched)}

\* A variant of the coroutine that stores the documents of each fetch as
\* soon as the fetch returns.
ResumeIngestLegislation_store_as_fetched(t) ==
    /\ in_flight[t].status = "suspended" /\ in_flight[t].server = "legislation"
    /\ LET task == in_flight[t]
           outcome == fetch_outcome(task.plan, task.awaiting)
           fetched == fetch_legislation(outcome)
           all == task.all_documents \o fetched
       IN  /\ documents' = store_all(documents, fetched)
           /\ ingested' = [id \in (DOMAIN ingested) \cup ids_of_fetched(fetched) |->
                               IF id \in ids_of_fetched(fetched)
                               THEN Enhanced[fetched[CHOOSE i \in 1..Len(fetched) :
                                                        fetched[i].document_id = id]]
                               ELSE ingested[id]]
           /\ in_flight' = [in_flight EXCEPT ![t] =
                                IF outcome.kind = "other_error"
                                THEN [status |-> "returned", server |-> "legislation",
                                      plan |-> task.plan,
                                      response |-> [op |-> "ingest", status |-> 500]]
                                ELSE IF task.awaiting < NumFetches
                                THEN [task EXCEPT !.awaiting = @ + 1, !.all_documents = all]
                                ELSE [status |-> "returned", server |-> "legislation",
                                      plan |-> task.plan,
                                      response |-> [op |-> "ingest", status |-> 200,
                                                    documents_loaded |-> Len(all)]]]
    /\ UNCHANGED <<chat_history, response, real_vars>>

\* The awaited fetch returns and the coroutine runs to its next await: an
\* exception of the fetch ends the request with a 500, a list is appended to
\* all_documents, and after the last fetch the store loop and the return
\* follow without an await.
ResumeIngestLegislation(t) ==
    /\ in_flight[t].status = "suspended" /\ in_flight[t].server = "legislation"
    /\ LET task == in_flight[t]
           outcome == fetch_outcome(task.plan, task.awaiting)
           all == task.all_documents \o fetch_legislation(outcome)
           ids == {all[i].document_id : i \in 1..Len(all)}
           last(id) == CHOOSE i \in 1..Len(all) :
                            /\ all[i].document_id = id
                            /\ \A j \in 1..Len(all) : all[j].document_id = id => j <= i
       IN  IF outcome.kind = "other_error"
           THEN /\ in_flight' = [in_flight EXCEPT ![t] =
                                    [status |-> "returned", server |-> "legislation",
                                     plan |-> task.plan,
                                     response |-> [op |-> "ingest", status |-> 500]]]
                /\ UNCHANGED <<documents, ingested>>
           ELSE IF task.awaiting < NumFetches
           THEN /\ in_flight' = [in_flight EXCEPT ![t] =
                                    [task EXCEPT !.awaiting = @ + 1, !.all_documents = all]]
                /\ UNCHANGED <<documents, ingested>>
           ELSE /\ documents' = store_all(documents, all)
                /\ ingested' = [id \in (DOMAIN ingested) \cup ids |->
                                   IF id \in ids THEN Enhanced[all[last(id)]]
                                   ELSE ingested[id]]
                /\ in_flight' = [in_flight EXCEPT ![t] =
                                    [status |-> "returned", server |-> "legislation",
                                     plan |-> task.plan,
                                     response |->
                                        [op |-> "ingest", status |-> 200,
                                         documents_loaded |-> Len(all),
                                         categories |-> breakdown(documents', "category"),
                                         sources |-> breakdown(documents', "source")]]]
    /\ UNCHANGED <<chat_history, response, real_vars>>

\* trigger_real_chicago_ingestion up to its await of
\* fetch_all_real_chicago_data.
BeginRealChicagoIngestion(t, plan) ==
    /\ in_flight[t].status = "not_started"
    /\ \A u \in Tasks : in_flight[u].status # "not_started" => in_flight[u].server = "real"
    /\ in_flight' = [in_flight EXCEPT ![t] =
                        [status |-> "suspended", server |-> "real", plan |-> plan]]
    /\ UNCHANGED <<documents, chat_history, response, ingested, real_vars>>

\* The gathered fetches return: the store loop and the return follow without
\* an await.
ResumeRealChicagoIngestion(t) ==
    /\ in_flight[t].status = "suspended" /\ in_flight[t].server = "real"
    /\ LET real_documents == fetch_all_real_chicago_data(in_flight[t].plan, 1)
           ids == {real_documents[i].document_id : i \in 1..Len(real_documents)}
           last(id) == CHOOSE i \in 1..Len(real_documents) :
                        /\ real_documents[i].document_id = id
                        /\ \A j \in 1..Len(real_documents) :
                                real_documents[j].document_id = id => j <= i
       IN  /\ real_server_documents' = store_real(real_server_documents, real_documents)
           /\ real_ingested' = [id \in (DOMAIN real_ingested) \cup ids |->
                                   IF id \in ids THEN real_documents[last(id)]
                                   ELSE real_ingested[id]]
           /\ in_flight' = [in_flight EXCEPT ![t] =
                                [status |-> "returned", server |-> "real",
                                 plan |-> in_flight[t].plan,
                                 response |-> [op |-> "ingest_real", status |-> 200,
                                               documents_loaded |-> Len(real_documents)]]]
    /\ UNCHANGED <<documents, chat_history, response, ingested, conversation_history>>

\* The corpus operations: ingestion and search.
Next ==
    \/ \E plan \in IngestPlans : IngestLegislation(plan)
    \/ \E query \in Queries, jurisdiction \in JurisdictionFilters,
          category \in CategoryFilters, limit \in Limits :
            Search(query, jurisdiction, category, limit)
    \/ \E query \in Queries, jurisdiction \in JurisdictionFilters,
          category \in CategoryFilters, limit \in Limits :
            SearchEndpoint(query, jurisdiction, category, limit)
    \/ Return

Spec == Init /\ [][Next]_vars

\* The records the chat specification ingests.
ChatMatters == {MatterZoningAmended, MatterParking, MatterNullTitle}

\* The chat operations, over the corpora of single-record ingestions.
NextChat ==
    \/ \E m \in ChatMatters :
            IngestLegislation(IngestPlan([kind |-> "data", data |-> <<m>>],
                                         [kind |-> "data", data |-> <<>>], 1))
    \/ \E user_message \in Messages, k \in 0..MaxLimit :
            ChatCall(user_message, prefix(documents, k))
    \/ \E user_message \in Messages, use_context \in BOOLEAN, max_context_docs \in Limits :
            AskEndpoint(user_message, use_context, max_context_docs)
    \/ \E limit \in Limits : GetChatHistory(limit)
    \/ ClearChatHistory
    \/ Return

SpecChat == Init /\ [][NextChat]_vars

\* The two ingestions.  The legislation service and the real-data server are
\* two programs with a store each, and a behaviour follows one of them: it
\* ingests into one store while the other one is empty.
NextIngest ==
    \/ /\ real_server_documents = <<>>
       /\ \E plan \in IngestPlans : IngestLegislation(plan)
    \/ /\ documents = <<>>
       /\ \E plan \in RealPlans, limit_per_source \in 1..MaxFetch :
            TriggerRealChicagoIngestion(plan, limit_per_source)
    \/ Return

SpecIngest == Init /\ [][NextIngest]_vars

\* The queries and messages sent to the real-data server.
RealQueries ==
    {<<>>, <<" ">>, <<"p","o","r","c","h">>,
     <<"w","h","a","t"," ","p","e","r","m","i","t">>}

\* The category filters of the real-data server's search.
RealCategoryFilters == {None, CAT_construction, CAT_healthcare}

\* The ingestions of the real-data server's search and chat specification:
\* the permits feed returns one record, or two records without an id, and
\* the other feeds return none.
RealServerPlans ==
    {RealPlan([kind |-> "data", data |-> data], 1, "data") :
        data \in {<<RecordPorch>>, <<RecordNoId>>, <<RecordNoId, RecordNoIdSign>>}}

\* The top_k of the search requests.
TopKs == {1, 5}

\* The operations of the real-data server.
NextReal ==
    \/ \E plan \in RealServerPlans, limit_per_source \in 1..MaxFetch :
            TriggerRealChicagoIngestion(plan, limit_per_source)
    \/ \E query \in RealQueries, top_k \in TopKs, category \in RealCategoryFilters :
            SemanticSearch(query, top_k, category)
    \/ \E message \in RealQueries, use_context \in BOOLEAN :
            AskQuestion(message, use_context)
    \/ ClearConversationHistory
    \/ Return

SpecReal == Init /\ [][NextReal]_vars

\* The matterCategory texts given to the classifier: one per keyword of its
\* rules, texts that match several rules, and texts that match none.
CategoryTexts ==
    {<<"Z","O","N","I","N","G"," ","R","E","C","L","A","S","S","I","F","I","C","A","T","I","O","N","S">>,
     <<"B","u","i","l","d","i","n","g"," ","C","o","d","e">>,
     <<"B","U","S","I","N","E","S","S"," ","L","I","C","E","N","S","E","S">>,
     <<"L","i","c","e","n","s","e"," ","F","e","e","s">>,
     <<"P","u","b","l","i","c"," ","H","e","a","l","t","h">>,
     <<"F","o","o","d"," ","T","r","u","c","k","s">>,
     <<"P","A","R","K","I","N","G">>,
     <<"T","r","a","f","f","i","c">>,
     <<"T","R","A","N","S","P","O","R","T","A","T","I","O","N">>,
     <<"F","i","n","a","n","c","e">>,
     <<"B","u","d","g","e","t">>,
     <<"P","u","b","l","i","c"," ","S","a","f","e","t","y">>,
     <<"P","o","l","i","c","e">>,
     <<"F","i","r","e">>,
     <<"E","d","u","c","a","t","i","o","n">>,
     <<"S","c","h","o","o","l">>,
     <<"E","n","v","i","r","o","n","m","e","n","t">>,
     <<"S","u","s","t","a","i","n","a","b","i","l","i","t","y">>,
     <<"H","o","u","s","i","n","g">>,
     <<"R","e","s","i","d","e","n","t","i","a","l">>,
     <<"Z","o","n","i","n","g"," ","o","f"," ","B","u","s","i","n","e","s","s"," ","D","i","s","t","r","i","c","t","s">>,
     <<"F","o","o","d"," ","L","i","c","e","n","s","e">>,
     <<"S","c","h","o","o","l"," ","H","o","u","s","i","n","g"," ","B","u","d","g","e","t">>,
     <<"F","i","r","e"," ","S","t","a","t","i","o","n"," ","P","a","r","k","i","n","g">>,
     <<"G","e","n","e","r","a","l">>,
     <<>>,
     <<"E","X","E","C","U","T","I","V","E"," ","O","R","D","E","R","S"," ","&"," ","P","R","O","C","L","A","M","A","T","I","O","N","S">>}

\* The type texts given to the classifier.
TypeTexts ==
    {<<"O","r","d","i","n","a","n","c","e">>,
     <<"R","e","s","o","l","u","t","i","o","n">>,
     <<"E","x","e","c","u","t","i","v","e"," ","O","r","d","e","r">>,
     <<"P","r","o","c","l","a","m","a","t","i","o","n">>,
     <<"O","r","d","e","r">>,
     <<>>,
     <<"O","R","D","I","N","A","N","C","E"," ","A","M","E","N","D","M","E","N","T">>}

\* A call of _map_category_to_system.
MapCategory(category, matter_type) ==
    /\ response = Idle
    /\ response' = [op |-> "classify", category |-> category, matter_type |-> matter_type,
                    result |-> map_category_to_system(category, matter_type)]
    /\ UNCHANGED <<documents, chat_history, ingested, real_vars, in_flight>>

\* The classifier on its own, beside ingestions of single records.
NextClassify ==
    \/ \E category \in CategoryTexts, matter_type \in TypeTexts :
            MapCategory(category, matter_type)
    \/ \E m \in ChatMatters \cup {MatterNullCategory} :
            IngestLegislation(IngestPlan([kind |-> "data", data |-> <<m>>],
                                         [kind |-> "data", data |-> <<>>], 1))
    \/ Return

SpecClassify == Init /\ [][NextClassify]_vars

\* The ingestions of the corpus specification: one record of the recent
\* fetch, or a recent fetch that fails in one of the two ways.
CorpusPlans ==
    {IngestPlan(r, [kind |-> "data", data |-> <<>>], 1) :
        r \in {[kind |-> "data", data |-> <<m>>] : m \in ChatMatters}
              \cup {[kind |-> "client_error", data |-> <<>>],
                    [kind |-> "other_error", data |-> <<>>]}}

\* The ids asked of the get endpoint: the id of a record, and an unknown id.
DocumentIds == {LIT_DocIdPrefix \o V_1, LIT_DocIdPrefix \o <<"9">>}

\* All the operations of the legislation server.
NextCorpus ==
    \/ \E plan \in CorpusPlans : IngestLegislation(plan)
    \/ \E query \in {<<" ">>, <<"f","e","e">>} :
            SearchEndpoint(query, None, None, MaxLimit)
    \/ \E user_message \in {<<" ">>, <<"z","o","n","i","n","g"," ","f","e","e">>},
          use_context \in BOOLEAN :
            AskEndpoint(user_message, use_context, MaxLimit)
    \/ GetLegislationStats
    \/ \E limit \in Limits, category \in {None, CAT_construction},
          document_type \in {None, lower(V_Order)} :
            GetAllDocuments(limit, category, document_type)
    \/ \E document_id \in DocumentIds : GetDocumentById(document_id)
    \/ GetChatHistory(MaxLimit)
    \/ ClearChatHistory
    \/ Return

SpecCorpus == Init /\ [][NextCorpus]_vars

\* The messages of the template specification: words of two buckets in
\* either order, upper case, one bucket, and no bucket.
TemplateMessages ==
    {<<"l","i","c","e","n","s","e"," ","z","o","n","i","n","g">>,
     <<"B","u","s","i","n","e","s","s"," ","p","a","r","k","i","n","g">>,
     <<"T","R","A","F","F","I","C">>,
     <<"h","e","l","l","o"," ","f","e","e">>,
     <<"p","a","r","k","i","n","g"," ","l","i","c","e","n","s","e">>}

\* The chat operation called with no candidate or with the first document
\* of the corpus as the only candidate, over corpora of single-record
\* ingestions.
NextTemplates ==
    \/ \E m \in ChatMatters :
            IngestLegislation(IngestPlan([kind |-> "data", data |-> <<m>>],
                                         [kind |-> "data", data |-> <<>>], 1))
    \/ \E user_message \in TemplateMessages, k \in 0..1 :
            ChatCall(user_message, prefix(documents, k))
    \/ ClearChatHistory
    \/ Return

SpecTemplates == Init /\ [][NextTemplates]_vars

\* The queries of the simple ranking specification: blank, one word of one
\* title, three words of the contents, and two words in mixed case.
SimpleQueries ==
    {<<" ">>,
     <<"p","o","r","c","h">>,
     <<"w","o","r","k"," ","z","i","p"," ","c","o","d","e",":">>,
     <<"P","e","r","m","i","t"," ","F","O","O","D">>}

\* The top_k of the simple ranking specification.
SimpleTopKs == {0, 1, 2, 5}

\* The ingestions of the simple ranking specification: the permits feed or
\* the food inspections feed returns a record with an id, a record without
\* one, or both, and the other feeds return none.
SimplePlans ==
    {RealPlan([kind |-> "data", data |-> data], w, "data") :
        data \in {<<RecordPorch>>, <<RecordNoIdSign>>, <<RecordPorch, RecordNoIdSign>>},
        w \in DataFetchers}

\* A call of simple_similarity_search on the store of the real-data server.
SimpleSimilaritySearch(query, top_k) ==
    /\ response = Idle
    /\ response' = IF similarity_raises(real_server_documents, query)
                   THEN [op |-> "simple_search", raised |-> TRUE,
                         query |-> query, top_k |-> top_k]
                   ELSE [op |-> "simple_search", raised |-> FALSE,
                         query |-> query, top_k |-> top_k,
                         results |-> simple_similarity_search(real_server_documents,
                                                              query, top_k)]
    /\ UNCHANGED <<documents, chat_history, ingested, real_vars, in_flight>>

\* The ranking of the real-data server over its ingestions.
NextSimple ==
    \/ \E plan \in SimplePlans, limit_per_source \in 1..MaxFetch :
            TriggerRealChicagoIngestion(plan, limit_per_source)
    \/ \E query \in SimpleQueries, top_k \in SimpleTopKs :
            SimpleSimilaritySearch(query, top_k)
    \/ Return

SpecSimple == Init /\ [][NextSimple]_vars

\* The queries and messages sent to the real-data server in the read-only
\* specification.
ReadOnlyQueries ==
    {<<"p","o","r","c","h">>,
     <<"P","e","r","m","i","t"," ","F","O","O","D">>}

\* The requests that read, of both servers, over their ingestions.  The two
\* servers are two programs with a store each, and a behaviour follows one of
\* them.
NextReadOnly ==
    \/ /\ real_server_documents = <<>> /\ conversation_history = <<>>
       /\ \/ \E plan \in CorpusPlans : IngestLegislation(plan)
          \/ \E query \in {<<" ">>, <<"f","e","e">>} :
                SearchEndpoint(query, None, None, MaxLimit)
          \/ \E use_context \in BOOLEAN :
                AskEndpoint(<<"z","o","n","i","n","g"," ","f","e","e">>, use_context, MaxLimit)
          \/ GetLegislationStats
          \/ \E category \in {None, CAT_construction} :
                GetAllDocuments(MaxLimit, category, None)
          \/ \E document_id \in DocumentIds : GetDocumentById(document_id)
    \/ /\ documents = <<>> /\ chat_history = <<>>
       /\ \/ \E plan \in SimplePlans, limit_per_source \in 1..MaxFetch :
                TriggerRealChicagoIngestion(plan, limit_per_source)
          \/ \E query \in ReadOnlyQueries, top_k \in TopKs,
                    category \in {None, CAT_healthcare} :
                SemanticSearch(query, top_k, category)
          \/ \E message \in ReadOnlyQueries : AskQuestion(message, TRUE)
    \/ Return

SpecReadOnly == Init /\ [][NextReadOnly]_vars

\* The ingestions of legislation that overlap: a recent fetch and a category
\* fetch with one record each, and an ingestion whose second category fetch
\* raises.
OverlapPlans ==
    {IngestPlan([kind |-> "data", data |-> <<MatterZoningAmended>>],
                [kind |-> "data", data |-> <<MatterParking>>], 3),
     IngestPlan([kind |-> "data", data |-> <<MatterParking>>],
                [kind |-> "data", data |-> <<MatterNullTitle>>], 5),
     IngestPlan([kind |-> "data", data |-> <<MatterNullTitle>>],
                [kind |-> "other_error", data |-> <<>>], 2)}

\* Requests served between the awaits of up to two ingestions.  The handlers
\* other than the ingestions have no await and run in one step.  The two
\* servers are two programs, and a behaviour follows one of them.
NextOverlap ==
    \/ \E t \in Tasks, plan \in OverlapPlans : BeginIngestLegislation(t, plan)
    \/ \E t \in Tasks : ResumeIngestLegislation(t)
    \/ \E t \in Tasks, plan \in RealServerPlans : BeginRealChicagoIngestion(t, plan)
    \/ \E t \in Tasks : ResumeRealChicagoIngestion(t)
    \/ /\ real_server_documents = <<>>
       /\ \/ SearchEndpoint(<<"f","e","e">>, None, None, MaxLimit)
          \/ GetLegislationStats
          \/ \E document_id \in DocumentIds : GetDocumentById(document_id)
    \/ /\ documents = <<>>
       /\ real_server_documents # <<>>
       /\ SemanticSearch(<<"p","o","r","c","h">>, 5, None)
    \/ Return

\* The event loop resumes a coroutine whose awaited fetch has ended, and
\* every fetch ends (the session has a total timeout).
SpecOverlap ==
    /\ Init
    /\ [][NextOverlap]_vars
    /\ \A t \in Tasks : WF_vars(ResumeIngestLegislation(t))
    /\ \A t \in Tasks : WF_vars(ResumeRealChicagoIngestion(t))


(***************************************************************************)
(* Properties                                                              *)
(***************************************************************************)
\* A search that returned its results (the direct call, or the endpoint's 200).
SearchDone ==
    \/ response.op = "search" /\ ~response.raised
    \/ response.op = "search_endpoint" /\ response.status = 200

\* A chat answer (the direct call, or the endpoint's 200).
ChatDone == response.op \in {"chat", "ask_endpoint"} /\ response.status = 200

\* The stored document a result is the annotated copy of.
stored(result) ==
    documents[CHOOSE i \in 1..Len(documents) :
                documents[i].document_id = result.document_id]

\* The words of the query of the search in `response`.
QueryWords == split_set(lower(response.request.query))

\* The four signals of a document for the query words Q, stated from the
\* ranking rules: title words in common, query words that are substrings of
\* the content, and the two metadata tests.
TitleSignal(Q, doc) ==
    Cardinality({w \in Q : w \in split_set(lower(doc.title))})

ContentSignal(Q, doc) ==
    Cardinality({w \in Q : contains(w, lower(doc.content))})

CategorySignal(Q, doc) ==
    \E w \in Q : contains(w, lower(str(doc.metadata.matter_category)))

SponsorSignal(Q, doc) ==
    \E w \in Q : contains(w, lower(str(doc.metadata.sponsor)))

\* A store holds one entry per id of the history variable, and under each id
\* the document of the last ingestion of that id.
OneEntryPerId(docs, history) ==
    /\ \A i, j \in 1..Len(docs) : docs[i].document_id = docs[j].document_id => i = j
    /\ {docs[i].document_id : i \in 1..Len(docs)} = DOMAIN history
    /\ \A i \in 1..Len(docs) : docs[i] = history[docs[i].document_id]
    /\ Len(docs) = Cardinality(DOMAIN history)

\* C1: after any sequence of ingestions the corpus holds exactly one entry per
\* document_id ever ingested, the entry of an id is the document of the most
\* recent ingestion of that id, and the corpus size is the number of distinct
\* ids (a re-ingested id never adds an entry); in the legislation service
\* and in the real-data server alike.
C1_OneEntryPerId ==
    /\ OneEntryPerId(documents, ingested)
    /\ OneEntryPerId(real_server_documents, real_ingested)

\* C1 witness: an ingestion of three records left two entries, the amended
\* record under the first id.
C1_Witness ==
    /\ response.op = "ingest" /\ response.status = 200
    /\ response.documents_loaded = 3
    /\ Len(documents) = 2
    /\ documents[1].document_id = LIT_DocIdPrefix \o V_1
    /\ documents[1].title = V_ZoningFee
    /\ documents[2].document_id = LIT_DocIdPrefix \o V_2

\* C2: the weighted ranker never returns a document of total score 0: every
\* result has a positive similarity_score, a stored document with none of the
\* four signals is in no result list, and a blank query returns nothing.
C2_NoZeroScore ==
    SearchDone =>
        /\ \A k \in 1..Len(response.results) :
            rat_less(Zero, response.results[k].similarity_score)
        /\ \A i \in 1..Len(documents) :
            (/\ documents[i].title # None
             /\ TitleSignal(QueryWords, documents[i]) = 0
             /\ ContentSignal(QueryWords, documents[i]) = 0
             /\ ~CategorySignal(QueryWords, documents[i])
             /\ ~SponsorSignal(QueryWords, documents[i]))
            => \A k \in 1..Len(response.results) :
                    response.results[k].document_id # documents[i].document_id
        /\ QueryWords = {} => response.results = <<>>

\* C2 witness: a search returned a document and left out another one, which
\* passed the filters and was not cut by the limit, for its score of 0.
C2_Witness ==
    /\ SearchDone
    /\ response.results # <<>>
    /\ Len(response.results) < response.request.limit
    /\ \E i \in 1..Len(documents) :
        /\ passes_filters(documents[i], response.request.jurisdiction,
                          response.request.category)
        /\ \A k \in 1..Len(response.results) :
                response.results[k].document_id # documents[i].document_id

\* C3: the similarity_score of every result is within [0, 1].
C3_ScoreInUnitInterval ==
    SearchDone =>
        \A k \in 1..Len(response.results) :
            /\ ~rat_less(response.results[k].similarity_score, Zero)
            /\ ~rat_less(One, response.results[k].similarity_score)

\* C3 witness: a result whose title, content and category signals add up to
\* 0.9.
C3_Witness ==
    /\ SearchDone
    /\ \E k \in 1..Len(response.results) :
        response.results[k].similarity_score = Rat(9, 10)

\* C4: the similarity_score of a result is
\* min(1, 0.4*|Q n T|/|Q| + 0.3*c/|Q| + 0.2*[category] + 0.1*[sponsor]),
\* stated in tenths of 1/|Q|.
C4_ScoreFormula ==
    SearchDone =>
        \A k \in 1..Len(response.results) :
            LET r == response.results[k]
                n == Cardinality(QueryWords)
                sum == 4 * TitleSignal(QueryWords, stored(r))
                       + 3 * ContentSignal(QueryWords, stored(r))
                       + (IF CategorySignal(QueryWords, stored(r)) THEN 2 * n ELSE 0)
                       + (IF SponsorSignal(QueryWords, stored(r)) THEN n ELSE 0)
            IN  r.similarity_score.num * (10 * n)
                    = r.similarity_score.den * (IF sum < 10 * n THEN sum ELSE 10 * n)

\* C4 witness: the query word "zon" is no word of the title and no word of
\* the content, and is a substring of both the content and the category: the
\* score is 0.3 + 0.2.
C4_Witness ==
    /\ SearchDone
    /\ response.request.query = <<"z","o","n">>
    /\ \E k \in 1..Len(response.results) :
        /\ response.results[k].similarity_score = Rat(1, 2)
        /\ TitleSignal(QueryWords, stored(response.results[k])) = 0

\* C5 (as claimed): the results are in non-increasing score order, results of
\* equal score are in corpus order, and they are the top `limit` of that
\* ordering, so that a search that returns something returns at most `limit`
\* results.
C5_TopLimit ==
    (SearchDone /\ response.results # <<>>) =>
        LET results == response.results
            position(r) == CHOOSE i \in 1..Len(documents) :
                                documents[i].document_id = r.document_id
        IN  /\ \A k \in 1..(Len(results) - 1) :
                /\ ~rat_less(results[k].similarity_score, results[k + 1].similarity_score)
                /\ results[k].similarity_score = results[k + 1].similarity_score
                    => position(results[k]) < position(results[k + 1])
            /\ Len(results) <= response.request.limit

\* C6: every result satisfies the jurisdiction and category filters that are
\* set, and an unset filter excludes nothing: a document that satisfies the
\* filters that are set and has a signal is returned, unless the limit cut
\* the list.
C6_Filters ==
    SearchDone =>
        LET j == response.request.jurisdiction
            c == response.request.category
            results == response.results
        IN  /\ \A k \in 1..Len(results) :
                /\ truthy(j) => results[k].jurisdiction = j
                /\ truthy(c) => results[k].category = c
            /\ (response.request.limit >= 0 /\ Len(results) < response.request.limit) =>
                \A i \in 1..Len(documents) :
                    (/\ truthy(j) => documents[i].jurisdiction = j
                     /\ truthy(c) => documents[i].category = c
                     /\ ContentSignal(QueryWords, documents[i]) > 0)
                    => \E k \in 1..Len(results) :
                            results[k].document_id = documents[i].document_id

\* C6 witness: a search with a category filter returned a document and left
\* out a document of another category that has a signal.
C6_Witness ==
    /\ SearchDone
    /\ truthy(response.request.category)
    /\ response.results # <<>>
    /\ \E i \in 1..Len(documents) :
        /\ documents[i].category # response.request.category
        /\ documents[i].title # None
        /\ TitleSignal(QueryWords, documents[i]) > 0

\* C7: match_reasons is the subsequence of the four labels, in their fixed
\* order, of the signals that are positive; it is never empty.
C7_MatchReasons ==
    SearchDone =>
        \A k \in 1..Len(response.results) :
            LET r == response.results[k]
            IN  /\ r.match_reasons =
                    (IF TitleSignal(QueryWords, stored(r)) > 0
                        THEN <<"Title match">> ELSE <<>>)
                    \o (IF ContentSignal(QueryWords, stored(r)) > 0
                        THEN <<"Content match">> ELSE <<>>)
                    \o (IF CategorySignal(QueryWords, stored(r))
                        THEN <<"Category match">> ELSE <<>>)
                    \o (IF SponsorSignal(QueryWords, stored(r))
                        THEN <<"Sponsor match">> ELSE <<>>)
                /\ r.match_reasons # <<>>

\* C7 witness: a result matched by its content and its sponsor alone.
C7_Witness ==
    /\ SearchDone
    /\ \E k \in 1..Len(response.results) :
        response.results[k].match_reasons = <<"Content match", "Sponsor match">>

\* C8: a chat answer appends exactly two turns, the user's message and then
\* the answer; clearing empties the history; every other step leaves it as it
\* is; so the history always alternates user, ai.
C8_ChatStep ==
    IF response'.op \in {"chat", "ask_endpoint"} /\ response'.status = 200
    THEN chat_history' = chat_history
            \o <<[role |-> "user", message |-> response'.user_message],
                 [role |-> "ai", message |-> response'.answer.answer]>>
    ELSE IF response'.op = "clear"
    THEN chat_history' = <<>>
    ELSE chat_history' = chat_history

C8_Alternating ==
    /\ Len(chat_history) % 2 = 0
    /\ \A i \in 1..Len(chat_history) :
        chat_history[i].role = IF i % 2 = 1 THEN "user" ELSE "ai"

C8_History == [][C8_ChatStep]_vars /\ []C8_Alternating

\* C8 witness: the second answer of a conversation has been appended.
C8_Witness ==
    /\ ChatDone
    /\ Len(chat_history) = 4
    /\ chat_history[3].message = response.user_message

\* C9: sources has one entry per candidate, in order, echoing its title,
\* authority, url, category, similarity_score and match_reasons (0.0 and []
\* for a candidate that carries none); it is empty iff there is no candidate,
\* and context_used is its length.
C9_Sources ==
    ChatDone =>
        LET given == response.candidates
            sources == response.answer.sources
        IN  /\ Len(sources) = Len(given)
            /\ \A i \in 1..Len(given) :
                /\ sources[i].title = given[i].title
                /\ sources[i].authority = given[i].authority
                /\ sources[i].url = given[i].url
                /\ sources[i].category = given[i].category
                /\ sources[i].similarity_score =
                    IF "similarity_score" \in DOMAIN given[i]
                    THEN given[i].similarity_score ELSE Zero
                /\ sources[i].match_reasons =
                    IF "match_reasons" \in DOMAIN given[i]
                    THEN given[i].match_reasons ELSE <<>>
            /\ (sources = <<>>) <=> (given = <<>>)
            /\ response.answer.context_used = Len(sources)

\* C9 witness: an answer built on two ranked candidates.
C9_Witness ==
    /\ ChatDone
    /\ Len(response.candidates) = 2
    /\ response.answer.sources[2].match_reasons # <<>>
    /\ response.answer.sources[1].similarity_score
        # response.answer.sources[2].similarity_score

\* C10: the confidence is 0.0 without candidates, and else the
\* similarity_score of the first candidate, or 0.5 when it carries none.
C10_Confidence ==
    ChatDone =>
        response.answer.confidence_score =
            IF response.candidates = <<>> THEN Rat(0, 1)
            ELSE IF "similarity_score" \in DOMAIN response.candidates[1]
            THEN response.candidates[1].similarity_score
            ELSE Rat(1, 2)

\* C10 witness: an answer whose first candidate carries no score.
C10_Witness ==
    /\ ChatDone
    /\ response.candidates # <<>>
    /\ "similarity_score" \notin DOMAIN response.candidates[1]
    /\ response.answer.confidence_score = Rat(1, 2)

\* The search and chat endpoints of the two servers, and the text (query or
\* message) of the request a response answers.
TextEndpoints == {"search_endpoint", "ask_endpoint", "real_search", "real_ask"}

RequestText(r) ==
    IF r.op = "ask_endpoint" THEN r.user_message
    ELSE IF r.op = "real_ask" THEN r.message
    ELSE IF "query" \in DOMAIN r THEN r.query
    ELSE r.request.query

\* A request with a blank text is answered in this step.
BlankRequestStep ==
    /\ response = Idle
    /\ response'.op \in TextEndpoints
    /\ strip(RequestText(response')) = <<>>

\* C11: a blank search query or chat message (empty or whitespace-only) is
\* rejected as a client error (a 4xx status) by the legislation server and
\* by the real-data server alike, and the rejection leaves the corpus and
\* the chat history of the server unchanged.
C11_BlankRejected ==
    [][BlankRequestStep =>
            /\ response'.status \in 400..499
            /\ UNCHANGED <<documents, chat_history, real_server_documents,
                           conversation_history>>]_vars

\* The ids of a list of documents.
ids_of(docs) == {docs[i].document_id : i \in 1..Len(docs)}

\* A fetch of the plan of a legislation ingestion failed.
LegislationFeedFailed(plan) ==
    \/ plan.recent.kind # "data"
    \/ \E i \in 1..NumCategoryFetches : plan.categories[i].kind # "data"

\* A fetch of the plan of a real-data ingestion failed.
RealFeedFailed(plan) == \E s \in 1..Len(RealSources) : plan[s].kind # "data"

\* C12: when the fetch of one source feed fails during an ingestion (a
\* non-success status, a connection error, a timeout, an undecodable body),
\* the ingestion as a whole does not fail, and the documents fetched from
\* the other sources are in the corpus after it; the failed source
\* contributes none.
C12_FailedFeedIsolated ==
    [][/\ \A plan \in IngestPlans :
            (response = Idle /\ LegislationFeedFailed(plan) /\ IngestLegislation(plan))
                => /\ response'.status = 200
                   /\ ids_of(all_documents(plan)) \subseteq ids_of(documents')
       /\ \A plan \in RealPlans, limit_per_source \in 1..MaxFetch :
            (response = Idle /\ RealFeedFailed(plan)
                /\ TriggerRealChicagoIngestion(plan, limit_per_source))
                => /\ response'.status = 200
                   /\ ids_of(fetch_all_real_chicago_data(plan, 1))
                          \subseteq ids_of(real_server_documents')]_vars

\* The records of all the batches of a legislation ingestion, and those of a
\* real-data ingestion as (fetcher, record) pairs.
RECURSIVE category_records(_, _)
category_records(plan, i) ==
    IF i > NumCategoryFetches THEN <<>>
    ELSE plan.categories[i].data \o category_records(plan, i + 1)

LegislationRecords(plan) == plan.recent.data \o category_records(plan, 1)

RealBatchRecords(plan) ==
    {p \in (1..Len(RealSources)) \X (1..MaxFetch) : p[2] <= Len(plan[p[1]].data)}

\* C13: a record whose normalization raises yields no document, and every
\* other record of the fetched batches is normalized and contributed,
\* wherever the malformed record stands in its batch: the ingestion loads
\* one document per well-formed record, and each of them is in the corpus.
C13_MalformedRecordSkipped ==
    [][/\ \A plan \in IngestPlans :
            (response = Idle /\ ~ingest_raises(plan) /\ IngestLegislation(plan))
                => LET records == LegislationRecords(plan)
                       good == {i \in 1..Len(records) : ~process_raises(records[i])}
                   IN  /\ response'.documents_loaded = Cardinality(good)
                       /\ \A i \in good :
                            Normalized[records[i]].document_id \in ids_of(documents')
       /\ \A plan \in RealPlans, limit_per_source \in 1..MaxFetch :
            (response = Idle /\ TriggerRealChicagoIngestion(plan, limit_per_source))
                => LET good == {p \in RealBatchRecords(plan) :
                                    is_dict(plan[p[1]].data[p[2]])}
                   IN  /\ response'.documents_loaded = Cardinality(good)
                       /\ \A p \in good :
                            RealDocument[p[1]][plan[p[1]].data[p[2]]].document_id
                                \in ids_of(real_server_documents')]_vars

\* The four textual fields of a document are strings, none of them null.
TextFieldsNonNull(doc) ==
    /\ doc.title # None
    /\ doc.document_type # None
    /\ doc.jurisdiction # None
    /\ doc.authority # None

\* C14: a textual field read from a source key that is absent or null ends
\* up in the Document as a placeholder string: normalization neither raises
\* on such a record nor drops it, and the title, document_type, jurisdiction
\* and authority of every document an ingestion stores are non-null.
C14_NullFieldsDefaulted ==
    [][/\ \A plan \in IngestPlans :
            (response = Idle /\ ~ingest_raises(plan) /\ IngestLegislation(plan))
                => LET records == LegislationRecords(plan)
                   IN  /\ \A i \in 1..Len(records) : ~process_raises(records[i])
                       /\ \A k \in 1..Len(documents') : TextFieldsNonNull(documents'[k])
       /\ \A plan \in RealPlans, limit_per_source \in 1..MaxFetch :
            (response = Idle /\ TriggerRealChicagoIngestion(plan, limit_per_source))
                => \A k \in 1..Len(real_server_documents') :
                        TextFieldsNonNull(real_server_documents'[k])]_vars

\* Two records of a feed are the same native record: both carry the feed's
\* identifier key, with the same value.
SameNative(key, r1, r2) ==
    key \in DOMAIN r1 /\ key \in DOMAIN r2 /\ r1[key] = r2[key]

\* C15: document_id is unique per native record: a batch of n records that
\* are n different native records (records without the identifier key
\* included) yields n distinct document_ids and n corpus entries, none of
\* them overwriting another.
C15_DistinctIds ==
    [][\A plan \in RealPlans \cup RealServerPlans, limit_per_source \in 1..MaxFetch :
            (response = Idle /\ TriggerRealChicagoIngestion(plan, limit_per_source))
                => \A s \in 1..Len(RealSources) :
                     LET data == plan[s].data
                         key == RealSources[s].id_key
                     IN  (/\ \A i \in 1..Len(data) : is_dict(data[i])
                          /\ \A i, j \in 1..Len(data) :
                                i # j => ~SameNative(key, data[i], data[j]))
                         => /\ Cardinality(ids_of(build_documents(s, data))) = Len(data)
                            /\ \A i \in 1..Len(data) :
                                    \E k \in 1..Len(real_server_documents') :
                                        real_server_documents'[k] = RealDocument[s][data[i]]]_vars

\* Two documents were normalized from records with the same raw values: the
\* title and the metadata carry the raw fields through unchanged.
SameRaw(d1, d2) == d1.title = d2.title /\ d1.metadata = d2.metadata

CategoryTextRules ==
    <<[words |-> {KW_zoning, KW_building}, result |-> CAT_construction],
      [words |-> {KW_business, KW_license}, result |-> CAT_business],
      [words |-> {KW_health, KW_food}, result |-> CAT_healthcare],
      [words |-> {KW_parking, KW_traffic, KW_transportation}, result |-> CAT_transportation],
      [words |-> {KW_finance, KW_budget}, result |-> CAT_finance],
      [words |-> {KW_public_safety, KW_police, KW_fire}, result |-> CAT_public_safety],
      [words |-> {KW_education, KW_school}, result |-> CAT_education],
      [words |-> {KW_environment, KW_sustainability}, result |-> CAT_environment],
      [words |-> {KW_housing, KW_residential}, result |-> CAT_housing]>>

TypeTextWords == {KW_executive_order, KW_proclamation, KW_resolution, KW_ordinance}

\* A word of the set occurs in the text, whatever the case of the text.
AnyWordIn(words, text) == \E w \in words : contains(w, lower(text))

\* The category-text rules that match a text.
MatchingRules(text) ==
    {k \in 1..Len(CategoryTextRules) : AnyWordIn(CategoryTextRules[k].words, text)}

\* C17: the classifier applies its rules in a fixed priority order and the
\* first matching rule wins: a category text containing "zoning" or
\* "building", in any case, gives construction whatever the type text (so
\* "ZONING RECLASSIFICATIONS" with type "Ordinance" is construction, not
\* governance), and the type-based governance rules fire only when no
\* category-text rule matched.
C17_FirstMatchWins ==
    response.op = "classify" =>
        LET matching == MatchingRules(response.category)
            first == CHOOSE k \in matching : \A j \in matching : k <= j
        IN  /\ matching # {} => response.result = CategoryTextRules[first].result
            /\ AnyWordIn({KW_zoning, KW_building}, response.category)
                    => response.result = CAT_construction
            /\ response.result = CAT_governance
                    => matching = {} /\ AnyWordIn(TypeTextWords, response.matter_type)
            /\ (matching = {} /\ AnyWordIn(TypeTextWords, response.matter_type))
                    => response.result = CAT_governance

\* The example of the claim: a zoning category under the type Ordinance.
C17_Witness ==
    /\ response.op = "classify"
    /\ response.category = <<"Z","O","N","I","N","G"," ","R","E","C","L","A","S","S","I","F","I","C","A","T","I","O","N","S">>
    /\ response.matter_type = <<"O","r","d","i","n","a","n","c","e">>
    /\ response.result = CAT_construction

\* The fixed taxonomy of the system categories.
CategoryTaxonomy ==
    {CAT_construction, CAT_business, CAT_healthcare, CAT_transportation, CAT_finance,
     CAT_public_safety, CAT_education, CAT_environment, CAT_housing, CAT_governance,
     CAT_general}

\* C18: the classifier is total: for every pair of category text and type
\* text it returns one value of the fixed taxonomy, general when no rule
\* matches, and every document of the legislation corpus has a category of
\* the taxonomy.
C18_Total ==
    /\ response.op = "classify" =>
            /\ response.result \in CategoryTaxonomy
            /\ (/\ MatchingRules(response.category) = {}
                /\ ~AnyWordIn(TypeTextWords, response.matter_type))
                    => response.result = CAT_general
    /\ \A i \in 1..Len(documents) : documents[i].category \in CategoryTaxonomy

\* No rule matches the pair, and a document is in the corpus.
C18_Witness ==
    /\ response.op = "classify"
    /\ MatchingRules(response.category) = {}
    /\ ~AnyWordIn(TypeTextWords, response.matter_type)
    /\ response.result = CAT_general
    /\ Len(documents) = 2

\* C19: every boolean-flag field of a legislation record that arrives as
\* "YES" or "NO" (keyLegislation, economicDisclosure, routine,
\* agreedCalendar) is stored in the Document as a boolean: no document of
\* the corpus carries the string "YES" or "NO" as the value of a flag field.
C19_FlagsAreBooleans ==
    \A i \in 1..Len(documents) :
        LET metadata == documents[i].metadata
        IN  /\ metadata.key_legislation \in BOOLEAN
            /\ metadata.economic_disclosure \notin {LIT_YES, LIT_NO}
            /\ metadata.routine \notin {LIT_YES, LIT_NO}
            /\ metadata.agreed_calendar \notin {LIT_YES, LIT_NO}

\* C20: no operation removes a document from the corpus: from the empty
\* corpus of the service start on, across ingestions, searches, chat
\* requests, stats, list, get and clear-chat operations, failed ones
\* included, the set of document_ids of the corpus grows or stays the same.
C20_CorpusOnlyGrows ==
    /\ documents = <<>>
    /\ [][ids_of(documents) \subseteq ids_of(documents')]_vars

\* An ingestion failed after two documents were ingested, and the two
\* documents are in the corpus.
C20_Witness ==
    /\ response.op = "ingest" /\ response.status = 500
    /\ Len(documents) = 2
    /\ DOMAIN ingested = ids_of(documents)

\* The content of the keyword example.
KeywordExample == <<"p","e","r","m","i","t"," ","p","e","r","m","i","t"," ","z","o","n","i","n","g"," ","z","o","n","i","n","g"," ","z","o","n","i","n","g"," ","b","u","i","l","d","i","n","g">>

\* The case-folded alphabetic tokens of a content, in order.
KeywordTokens(content) == findall_words(lower(content), 1)

\* The number of occurrences of a word among the tokens.
Occurrences(tokens, word) == Cardinality({i \in 1..Len(tokens) : tokens[i] = word})

\* The index of the first occurrence of a word among the tokens.
FirstOccurrence(tokens, word) ==
    CHOOSE i \in 1..Len(tokens) :
        tokens[i] = word /\ \A h \in 1..(i - 1) : tokens[h] # word

\* The pair at i comes before the pair at j in the order of the keywords:
\* more occurrences, or as many and seen first.
KeywordBefore(tokens, a, b) ==
    \/ a[2] > b[2]
    \/ a[2] = b[2] /\ FirstOccurrence(tokens, a[1]) < FirstOccurrence(tokens, b[1])

\* The pairs are the first ones, at most ten, of the words of the content
\* counted and ordered by count descending, ties by first occurrence.
IsKeywordList(content, keywords) ==
    LET tokens == KeywordTokens(content)
        words == {tokens[i] : i \in 1..Len(tokens)}
        kept == {keywords[i][1] : i \in 1..Len(keywords)}
    IN  /\ Len(keywords) = IF Cardinality(words) < 10 THEN Cardinality(words) ELSE 10
        /\ \A i \in 1..Len(keywords) :
                /\ keywords[i][1] \in words
                /\ Len(keywords[i][1]) >= 3
                /\ keywords[i][2] = Occurrences(tokens, keywords[i][1])
        /\ \A i, j \in 1..Len(keywords) :
                i < j => KeywordBefore(tokens, keywords[i], keywords[j])
        /\ \A w \in words \ kept : \A i \in 1..Len(keywords) :
                KeywordBefore(tokens, keywords[i], <<w, Occurrences(tokens, w)>>)

\* C21: keyword extraction returns at most 10 (word, count) pairs, each
\* count the number of occurrences of the word among the case-folded
\* alphabetic tokens of length >= 3, ordered by count descending with ties
\* broken by first occurrence in the content: this holds for the keywords of
\* every document of the corpus, and the example content yields (zoning, 3),
\* (permit, 2), (building, 1) in that order.
C21_KeywordsCountedAndOrdered ==
    /\ extract_keywords(KeywordExample)
            = << <<KW_zoning, 3>>, << <<"p","e","r","m","i","t">>, 2>>, <<KW_building, 1>> >>
    /\ \A i \in 1..Len(documents) :
            IsKeywordList(documents[i].content, documents[i].keywords)

\* A document of the corpus has more than ten distinct words, ten keywords,
\* a keyword that occurs more than once, and two keywords with equal counts.
C21_Witness ==
    \E i \in 1..Len(documents) :
        LET tokens == KeywordTokens(documents[i].content)
            keywords == documents[i].keywords
        IN  /\ Cardinality({tokens[k] : k \in 1..Len(tokens)}) > 10
            /\ Len(keywords) = 10
            /\ keywords[1][2] > 1
            /\ \E a, b \in 1..10 : a < b /\ keywords[a][2] = keywords[b][2]

\* a <= b in string order: a is a prefix of b, or at the first position
\* where they differ a has the smaller character.
LexLeq(a, b) ==
    \E k \in 0..Len(a) :
        /\ k <= Len(b)
        /\ \A h \in 1..k : a[h] = b[h]
        /\ \/ k = Len(a)
           \/ k < Len(b) /\ ord(a[k + 1]) < ord(b[k + 1])

\* The non-empty effective_date values of the corpus.
StoredDates ==
    {documents[i].effective_date : i \in {k \in 1..Len(documents) :
        /\ documents[k].effective_date # None
        /\ documents[k].effective_date # <<>>}}

\* C22: the stats date_range is computed from the live corpus as the
\* string-order minimum and maximum of the non-empty effective_date values
\* of all stored documents, and is the pair ("N/A", "N/A") exactly when no
\* stored document has a non-empty effective_date; documents with empty or
\* missing dates do not influence the range.
C22_DateRange ==
    response.op = "stats" =>
        IF StoredDates = {}
        THEN response.date_range = [earliest |-> NotAvailable, latest |-> NotAvailable]
        ELSE /\ response.date_range.earliest \in StoredDates
             /\ response.date_range.latest \in StoredDates
             /\ \A d \in StoredDates :
                    /\ LexLeq(response.date_range.earliest, d)
                    /\ LexLeq(d, response.date_range.latest)

\* The stats of a corpus of three documents, one of them with an empty date
\* and the others with two different dates.
C22_Witness ==
    /\ response.op = "stats"
    /\ Len(documents) = 3
    /\ \E i \in 1..3 : documents[i].effective_date = <<>>
    /\ response.date_range = [earliest |-> V_Date2, latest |-> V_Date1]

\* The stats of a corpus whose only document has an empty date.
C22_WitnessNoDates ==
    /\ response.op = "stats"
    /\ Len(documents) = 1
    /\ StoredDates = {}
    /\ response.date_range.earliest = NotAvailable

\* The buckets of the templates in priority order, each with its words.
TemplateBuckets ==
    <<[template |-> "zoning", words |-> {KW_zoning}],
      [template |-> "business", words |-> {KW_business, KW_license}],
      [template |-> "transportation", words |-> {KW_parking, KW_traffic}]>>

\* The buckets of which the lower-cased message contains a word.
BucketsHit(user_message) ==
    {b \in 1..Len(TemplateBuckets) :
        \E w \in TemplateBuckets[b].words : contains(w, lower(user_message))}

\* The template of the earliest bucket hit, the general one when none is.
TemplateOf(user_message) ==
    IF BucketsHit(user_message) = {} THEN "general"
    ELSE TemplateBuckets[CHOOSE b \in BucketsHit(user_message) :
                            \A c \in BucketsHit(user_message) : b <= c].template

\* C23: the answer of the chat operation is the fixed apology when the
\* candidate list is empty; otherwise the template is chosen by the
\* lower-cased message in fixed priority order (zoning, then business or
\* license, then parking or traffic, then general): a message with words of
\* several buckets gets the earliest bucket, and the choice depends on the
\* message alone, not on the category of the candidate.
C23_TemplateByPriority ==
    response.op = "chat" =>
        IF response.candidates = <<>>
        THEN response.answer.answer = Apology
        ELSE response.answer.answer.template = TemplateOf(response.user_message)

\* A message with the words license and zoning, in that order, is answered
\* with the zoning template although the candidate is a transportation
\* document.
C23_Witness ==
    /\ response.op = "chat"
    /\ Cardinality(BucketsHit(response.user_message)) = 2
    /\ Len(response.candidates) = 1
    /\ response.candidates[1].category = CAT_transportation
    /\ response.answer.answer.template = "zoning"

\* The words of a query or of a field: lower-cased, separated by white space.
WordSet(text) == split_set(lower(text))

\* Ten times the numerator of the simple score of a stored document for a
\* set of query words, before the division by the number of query words:
\* 7 per query word in the content, 15 per query word in the title.
SimpleWeight(Q, doc) ==
    7 * Cardinality(Q \cap WordSet(doc.content)) + 15 * Cardinality(Q \cap WordSet(doc.title))

\* The same, clamped at the weight of the score 1.0.
ClampedWeight(Q, doc) ==
    IF SimpleWeight(Q, doc) < 10 * Cardinality(Q) THEN SimpleWeight(Q, doc)
    ELSE 10 * Cardinality(Q)

\* The position in the store of the document a result is the copy of.
StoreIndex(result) ==
    CHOOSE i \in 1..Len(real_server_documents) :
        real_server_documents[i].document_id = result.document_id

\* The result r ranks before the stored document at j: a greater score, or an
\* equal score and an earlier place in the store.
RanksBefore(Q, r, j) ==
    LET i == StoreIndex(r)
        wi == ClampedWeight(Q, real_server_documents[i])
        wj == ClampedWeight(Q, real_server_documents[j])
    IN  wi > wj \/ (wi = wj /\ i < j)

Matching(category, document_type) ==
    {i \in 1..Len(documents) :
        /\ truthy(category) => documents[i].category = category
        /\ truthy(document_type) => documents[i].document_type = document_type}

\* C25: list(limit, category?, type?) returns documents that all satisfy
\* the given category and document_type filters, and for limit >= 1 it
\* returns min(limit, m) of them, m being the number of documents of the
\* corpus that satisfy the filters: when the corpus holds a matching
\* document and limit >= 1, the listing is not empty.
C25_ListFilteredThenLimited ==
    response.op = "list" =>
        LET m == Cardinality(Matching(response.category, response.document_type))
        IN  /\ \A k \in 1..Len(response.documents) :
                    \E i \in Matching(response.category, response.document_type) :
                        response.documents[k] = documents[i]
            /\ response.limit >= 1 =>
                    Len(response.documents) = IF response.limit < m THEN response.limit ELSE m

\* The operations of the claim: search, ask, stats, list and get of the
\* legislation server, search and ask of the real-data server.
ReadOps == {"search_endpoint", "ask_endpoint", "stats", "list", "get", "real_search", "real_ask"}

\* A step of one of the read operations, whatever its answer.
ReadStep == response = Idle /\ response'.op \in ReadOps

\* A step of a search of either server.
SearchStep == response = Idle /\ response'.op \in {"search_endpoint", "real_search"}

\* A stored document is the document its ingestion wrote, without the
\* fields of a ranking.
AsIngested(docs, written) ==
    \A i \in 1..Len(docs) :
        /\ docs[i].document_id \in DOMAIN written
        /\ docs[i] = written[docs[i].document_id]
        /\ "similarity_score" \notin DOMAIN docs[i]
        /\ "match_reasons" \notin DOMAIN docs[i]

\* C26: search, ask, stats, list and get are read-only with respect to the
\* corpus: after any of them the corpus maps the same ids to the same
\* documents as before, no stored document acquires a similarity_score or
\* match_reasons field or has its category changed (the annotations of the
\* ranking and the re-classification of the real-data server go to copies),
\* and a search leaves the chat history unchanged.
C26_ReadOnly ==
    /\ [](AsIngested(documents, ingested) /\ AsIngested(real_server_documents, real_ingested))
    /\ [][ReadStep => UNCHANGED <<documents, real_server_documents>>]_vars
    /\ [][SearchStep => UNCHANGED <<chat_history, conversation_history>>]_vars

\* A search of the real-data server returned a food inspection re-classified
\* as construction, and the stored document is still in healthcare.
C26_Witness ==
    /\ response.op = "real_search" /\ response.status = 200
    /\ \E k \in 1..Len(response.results), i \in 1..Len(real_server_documents) :
            /\ real_server_documents[i].document_id = response.results[k].document_id
            /\ real_server_documents[i].category = CAT_healthcare
            /\ response.results[k].category = CAT_construction
            /\ "similarity_score" \in DOMAIN response.results[k]

\* A search of the legislation server returned a document with its score and
\* match reasons, and the corpus and the chat history are as they were.
C26_WitnessLegislation ==
    /\ response.op = "search_endpoint" /\ response.status = 200
    /\ Len(response.results) > 0
    /\ "match_reasons" \in DOMAIN response.results[1]
    /\ AsIngested(documents, ingested)
    /\ chat_history = <<>>

\* C27: the documents_loaded count reported by an ingestion equals the
\* number of distinct document_ids that this ingestion wrote into the corpus
\* (added or overwrote), also for a batch in which the same document_id is
\* fetched more than once, for example by the recent fetch and by a
\* category fetch.
C27_LoadedCountsDistinctIds ==
    [][/\ \A plan \in IngestPlans :
            (response = Idle /\ ~ingest_raises(plan) /\ IngestLegislation(plan))
                => response'.documents_loaded = Cardinality(ids_of(all_documents(plan)))
       /\ \A plan \in RealPlans, limit_per_source \in 1..MaxFetch :
            (response = Idle /\ TriggerRealChicagoIngestion(plan, limit_per_source))
                => response'.documents_loaded
                        = Cardinality(ids_of(fetch_all_real_chicago_data(plan, 1)))]_vars

\* The document_ids of the whole batch of an ingestion.
BatchIds(task) ==
    IF task.server = "legislation" THEN ids_of(all_documents(task.plan))
    ELSE ids_of(fetch_all_real_chicago_data(task.plan, 1))

\* A step that changes a store is the last step of one ingestion, and it
\* stores the whole batch of that ingestion: no step stores a part of one.
StoreIsWholeBatch ==
    (documents' # documents \/ real_server_documents' # real_server_documents) =>
        \E t \in Tasks :
            /\ in_flight[t].status = "suspended"
            /\ in_flight'[t].status = "returned"
            /\ in_flight'[t].response.status = 200
            /\ \A u \in Tasks \ {t} : in_flight'[u] = in_flight[u]
            /\ IF in_flight[t].server = "legislation"
               THEN documents' = store_all(documents, all_documents(in_flight[t].plan))
               ELSE real_server_documents'
                        = store_real(real_server_documents,
                                     fetch_all_real_chicago_data(in_flight[t].plan, 1))

\* The ingestions that returned with success have their whole batch in the
\* store.
BatchesStored ==
    \A t \in Tasks :
        (in_flight[t].status = "returned" /\ in_flight[t].response.status = 200) =>
            BatchIds(in_flight[t]) \subseteq
                (IF in_flight[t].server = "legislation" THEN ids_of(documents)
                 ELSE ids_of(real_server_documents))

\* C28: under the cooperative single-threaded model, where requests
\* interleave only at the awaits of an ingestion's fetches, a search, stats
\* or get request that runs while an ingestion is in progress finds the
\* corpus with none or with all of that ingestion's documents (the store
\* loop is never seen half done), and when two ingestions overlap both
\* complete and the corpus then holds every document_id of both batches.
C28_OverlappingIngestions ==
    /\ [][StoreIsWholeBatch]_vars
    /\ []BatchesStored
    /\ \A t \in Tasks :
            (in_flight[t].status = "suspended") ~> (in_flight[t].status = "returned")

\* A stats request is answered while the first ingestion is suspended in a
\* category fetch with a fetched document in its all_documents and the
\* second ingestion has returned: the stats show the two documents of the
\* second batch and none of the first.
C28_Witness ==
    /\ response.op = "stats"
    /\ in_flight["first"].status = "suspended"
    /\ in_flight["first"].server = "legislation"
    /\ in_flight["first"].awaiting > 1
    /\ Len(in_flight["first"].all_documents) = 1
    /\ in_flight["second"].status = "returned"
    /\ in_flight["second"].response.status = 200
    /\ response.total_documents = 2
    /\ ids_of(documents) = BatchIds(in_flight["second"])
    /\ in_flight["first"].all_documents[1].document_id \notin ids_of(documents)

\* Two overlapping ingestions have returned, and the corpus holds the three
\* document_ids of their batches.
C28_WitnessBothReturned ==
    /\ \A t \in Tasks : in_flight[t].status = "returned" /\ in_flight[t].response.status = 200
    /\ BatchIds(in_flight["first"]) # BatchIds(in_flight["second"])
    /\ ids_of(documents) = BatchIds(in_flight["first"]) \cup BatchIds(in_flight["second"])
    /\ Len(documents) = 3


\* The smaller of two numbers.
Smaller(a, b) == IF a < b THEN a ELSE b

\* C29: the history request with a limit >= 0 answers the most recent
\* min(limit, n) turns of the n-turn history, in chronological order: never
\* more turns than the limit, and the turns returned are the last ones of the
\* history.
C29_HistoryMostRecent ==
    (response.op = "history" /\ response.limit >= 0) =>
        LET n == Len(chat_history)
            returned == response.chat_history
        IN  /\ Len(returned) = Smaller(response.limit, n)
            /\ Len(returned) <= response.limit
            /\ returned = SubSeq(chat_history, n - Len(returned) + 1, n)


\* The stored documents of category c that the query scores above zero.
PositiveOfCategory(Q, c) ==
    {i \in 1..Len(real_server_documents) :
        /\ real_server_documents[i].category = c
        /\ SimpleWeight(Q, real_server_documents[i]) > 0}

\* C30: a search of the real-data server with a category filter c returns
\* results that all have the category c, in the response and in the store,
\* and returns min(top_k, m) of them, m being the number of stored documents
\* of category c with a positive score.
C30_CategoryFilter ==
    (response.op = "real_search" /\ response.status = 200 /\ truthy(response.category)) =>
        LET c == response.category
            results == response.results
            m == Cardinality(PositiveOfCategory(WordSet(response.query), c))
        IN  /\ \A k \in 1..Len(results) :
                    /\ results[k].category = c
                    /\ real_server_documents[StoreIndex(results[k])].category = c
            /\ Len(results) = Smaller(response.top_k, m)

====
